---- MODULE Spec2Model ----
(***************************************************************************)
(* OpenixIMG: the IMAGEWTY container (OpenixIMGFile, OpenixPacker) and the *)
(* DragonEx configuration document (OpenixCFG) as state machines.          *)
(*                                                                         *)
(* Bytes are naturals 0..255, byte buffers are sequences of bytes, text is *)
(* a sequence of character codes.  A buffer index of the source (0-based)  *)
(* is index+1 of the sequence.                                             *)
(***************************************************************************)
EXTENDS Integers, Sequences, FiniteSets, TLC

(***************************************************************************)
(* Layout constants of the format (OpenixIMGWTY.hpp) and of the load path. *)
(***************************************************************************)
IMAGEWTY_MAGIC_LEN == 8
IMAGEWTY_FILEHDR_LEN == 1024
IMAGEWTY_FHDR_MAINTYPE_LEN == 8
IMAGEWTY_FHDR_SUBTYPE_LEN == 16
IMAGEWTY_FHDR_FILENAME_LEN == 256
\* "IMAGEWTY"
IMAGEWTY_MAGIC == <<73, 77, 65, 71, 69, 87, 84, 89>>
\* header_version value that selects the v3 dialect
HEADER_VERSION_V3 == 768
\* bytes of one cipher block
RC6_BLOCK == 16
\* sizeof(ImageHeader): magic, six u32, thirteen u32 of the larger union arm
SIZEOF_IMAGEHEADER == 84

(***************************************************************************)
(* 32-bit values.  A u32 below 2^31 is itself; every u32 of 2^31 or more   *)
(* is represented by Huge, and sums and products that reach 2^31 saturate  *)
(* at Huge.  Such a value is only ever used as a count, a length or an     *)
(* offset, where it lies beyond every buffer of the model.                 *)
(***************************************************************************)
Huge == 127 * 16777216 + 16777215
AddSat(a, b) == IF a > Huge - b THEN Huge ELSE a + b
\* (n * 1024) in uint32_t arithmetic
MulHdrLen(n) == LET r == n % 4194304 IN IF r >= 2097152 THEN Huge ELSE r * 1024

(***************************************************************************)
(* Byte helpers.                                                           *)
(***************************************************************************)
\* a function on 1..n as the sequence of its n values
Seq1(f, n) == SubSeq(f, 1, n)

Zeros(n) == Seq1([i \in 1..n |-> 0], n)

\* little-endian encoding of a u32
U32LE(v) == <<v % 256, (v \div 256) % 256, (v \div 65536) % 256, (v \div 16777216) % 256>>

\* the byte at 0-based index i of buf; junk when i is outside the buffer
\* (a read past the end of the vector returns whatever memory holds there)
ByteAt(buf, i, junk) == IF i >= 0 /\ i < Len(buf) THEN buf[i + 1] ELSE junk

\* the little-endian u32 at 0-based offset off
U32At(buf, off, junk) ==
    IF ByteAt(buf, AddSat(off, 3), junk) >= 128 THEN Huge
    ELSE ByteAt(buf, off, junk) + 256 * ByteAt(buf, AddSat(off, 1), junk)
         + 65536 * ByteAt(buf, AddSat(off, 2), junk)
         + 16777216 * ByteAt(buf, AddSat(off, 3), junk)

\* n bytes starting at 0-based offset off
BytesAt(buf, off, n, junk) == Seq1([k \in 1..n |-> ByteAt(buf, AddSat(off, k - 1), junk)], n)

\* std::isspace in the "C" locale: space, \t \n \v \f \r
IsSpace(c) == c = 32 \/ (c >= 9 /\ c <= 13)


\* the text of a char array read as a C string from 0-based offset off: the
\* bytes up to the first NUL.  The scan is not limited to the array: without a
\* NUL it runs on through the bytes that follow, and past the end of the
\* buffer through junk (at most JunkRun junk bytes are kept by the model).
RECURSIVE CStrFrom(_, _, _, _)
CStrFrom(buf, off, junk, run) ==
    LET c == ByteAt(buf, off, junk)
    IN IF c = 0 \/ run = 0 THEN <<>>
       ELSE <<c>> \o CStrFrom(buf, AddSat(off, 1), junk, IF off >= Len(buf) THEN run - 1 ELSE run)

\* the erase(find_if(rbegin, rend, not space and not NUL).base(), end) idiom:
\* drop the trailing run of whitespace and NUL characters
RECURSIVE StripTrailing(_)
StripTrailing(s) ==
    IF s = <<>> THEN s
    ELSE IF IsSpace(s[Len(s)]) \/ s[Len(s)] = 0 THEN StripTrailing(SubSeq(s, 1, Len(s) - 1))
    ELSE s

(***************************************************************************)
(* The block cipher.  RC6 is an external library: the model keeps what the *)
(* callers rely on, a keyed bijection on 16-byte blocks that differs per   *)
(* key, with encrypt the inverse of decrypt.  A block is rotated by a      *)
(* number of places that the key determines.                               *)
(***************************************************************************)
RECURSIVE SumBytes(_)
SumBytes(s) == IF s = <<>> THEN 0 ELSE s[1] + SumBytes(Tail(s))

\* RC6::init: the key schedule of the model is a rotation count 1..13
RC6Init(key) == 1 + (SumBytes(key) % 13)

\* initializeCrypto: the three RC6 contexts
KeyOf(fill, last) == [i \in 1..32 |-> IF i = 32 THEN last ELSE fill]
headerContext_ == RC6Init(KeyOf(0, 105))
fileHeadersContext_ == RC6Init(KeyOf(1, 109))
fileContentContext_ == RC6Init(KeyOf(2, 103))

\* RC6::decrypt / RC6::encrypt of one 16-byte block
RC6DecryptBlock(ctx, block) == SubSeq(block, ctx + 1, RC6_BLOCK) \o SubSeq(block, 1, ctx)
RC6EncryptBlock(ctx, block) ==
    SubSeq(block, RC6_BLOCK - ctx + 1, RC6_BLOCK) \o SubSeq(block, 1, RC6_BLOCK - ctx)

\* the bytes of buf that the nblocks blocks from 0-based offset start cover
Covered(buf, start, nblocks) ==
    IF start >= Len(buf) THEN 0
    ELSE IF nblocks > (Len(buf) - start) \div RC6_BLOCK THEN Len(buf) - start
    ELSE RC6_BLOCK * nblocks

\* the blocks of run decrypted one after the other; a last block that is cut
\* short by the end of the buffer is completed with the bytes found behind
\* the buffer, and only its part inside the buffer is kept.  Blocks do not
\* depend on each other: a run of several blocks is done as two shorter runs.
RECURSIVE DecryptRun(_, _, _)
DecryptRun(ctx, run, junk) ==
    IF run = <<>> THEN run
    ELSE IF Len(run) <= RC6_BLOCK
    THEN SubSeq(RC6DecryptBlock(ctx, run \o [k \in 1..(RC6_BLOCK - Len(run)) |-> junk]),
                1, Len(run))
    ELSE LET h == (Len(run) \div RC6_BLOCK) \div 2
             first == RC6_BLOCK * (IF h = 0 THEN 1 ELSE h)
         IN DecryptRun(ctx, SubSeq(run, 1, first), junk)
            \o DecryptRun(ctx, SubSeq(run, first + 1, Len(run)), junk)

RECURSIVE EncryptRun(_, _)
EncryptRun(ctx, run) ==
    IF Len(run) < RC6_BLOCK THEN run
    ELSE IF Len(run) = RC6_BLOCK THEN RC6EncryptBlock(ctx, run)
    ELSE LET h == (Len(run) \div RC6_BLOCK) \div 2
             first == RC6_BLOCK * (IF h = 0 THEN 1 ELSE h)
         IN EncryptRun(ctx, SubSeq(run, 1, first))
            \o EncryptRun(ctx, SubSeq(run, first + 1, Len(run)))

\* context.decrypt applied to the nblocks consecutive blocks that start at
\* 0-based offset start
DecryptBlocks(buf, start, nblocks, ctx, junk) ==
    LET m == Covered(buf, start, nblocks)
        s0 == IF start > Len(buf) THEN Len(buf) ELSE start
    IN SubSeq(buf, 1, s0)
       \o DecryptRun(ctx, SubSeq(buf, s0 + 1, s0 + m), junk)
       \o SubSeq(buf, s0 + m + 1, Len(buf))

EncryptBlocks(buf, start, nblocks, ctx) ==
    LET m == Covered(buf, start, nblocks)
    IN SubSeq(buf, 1, start)
       \o EncryptRun(ctx, SubSeq(buf, start + 1, start + m))
       \o SubSeq(buf, start + m + 1, Len(buf))

\* rc6DecryptInPlace returning the pointer it was given
FileRc6DecryptInPlaceFromData(buf, start, length, ctx, junk) ==
    LET numBlocks == length \div RC6_BLOCK
    IN [buf |-> DecryptBlocks(buf, start, numBlocks, ctx, junk),
        cur |-> start,
        oob |-> numBlocks > 0 /\ RC6_BLOCK * numBlocks > Len(buf) - start]

(***************************************************************************)
(* OpenixIMGFile::rc6DecryptInPlace: length / 16 whole blocks from start.  *)
(* The result carries the buffer, the returned cursor and whether a block  *)
(* reached outside the buffer.                                             *)
(***************************************************************************)
FileRc6DecryptInPlace(buf, start, length, ctx, junk) ==
    LET numBlocks == length \div RC6_BLOCK
    IN [buf |-> DecryptBlocks(buf, start, numBlocks, ctx, junk),
        cur |-> AddSat(start, RC6_BLOCK * numBlocks),
        oob |-> numBlocks > 0 /\ RC6_BLOCK * numBlocks > Len(buf) - start]

\* OpenixPacker::rc6DecryptInPlace: the same, but with encryption disabled
\* it touches nothing and returns data + length
PackerRc6DecryptInPlace(encryptionEnabled, buf, start, length, ctx, junk) ==
    IF ~encryptionEnabled
    THEN [buf |-> buf, cur |-> AddSat(start, length), oob |-> FALSE]
    ELSE FileRc6DecryptInPlace(buf, start, length, ctx, junk)


(***************************************************************************)
(* Header fields.  hdr is the 84-byte ImageHeader copy (imageHeader_), the *)
(* union starts at byte 32; the v3 arm puts one u32 (unknown) in front.    *)
(***************************************************************************)
header_version(hdr) == U32At(hdr, 8, 0)
version(hdr) == U32At(hdr, 20, 0)
\* the dialect test made on the format field version instead
IsV3ByVersion(hdr) == version(hdr) = HEADER_VERSION_V3
IsV3(hdr) == header_version(hdr) = HEADER_VERSION_V3

v1_pid(hdr) == U32At(hdr, 32, 0)
v1_vid(hdr) == U32At(hdr, 36, 0)
v1_hardware_id(hdr) == U32At(hdr, 40, 0)
v1_firmware_id(hdr) == U32At(hdr, 44, 0)
v1_num_files(hdr) == U32At(hdr, 56, 0)
v3_pid(hdr) == U32At(hdr, 36, 0)
v3_vid(hdr) == U32At(hdr, 40, 0)
v3_hardware_id(hdr) == U32At(hdr, 44, 0)
v3_firmware_id(hdr) == U32At(hdr, 48, 0)
v3_num_files(hdr) == U32At(hdr, 60, 0)

\* if (header_version == 0x0300) numFiles = v3.num_files else v1.num_files
NumFiles(hdr) == IF IsV3(hdr) THEN v3_num_files(hdr) ELSE v1_num_files(hdr)

\* 0-based offset of file header i: imageData_.data() + 1024 + i * 1024
FileHeaderAt(i) == AddSat(IMAGEWTY_FILEHDR_LEN, MulHdrLen(i))

\* offsets of the FileHeader members inside one file header, per dialect
StoredLengthOff(v3) == IF v3 THEN 292 ELSE 36
OriginalLengthOff(v3) == IF v3 THEN 300 ELSE 40
OffsetOff(v3) == IF v3 THEN 308 ELSE 44
FilenameOff(v3) == IF v3 THEN 36 ELSE 52

\* a member read of n bytes at off leaves the buffer
ReadsOutside(buf, off, n) == off > Len(buf) - n


(***************************************************************************)
(* Model bounds.                                                           *)
(***************************************************************************)
\* junk bytes kept when a C-string scan runs past the end of the buffer
JunkRun == 2
\* bytes past the end of the vector that may still be mapped memory: an
\* access farther out faults for certain
MappedSlack == 65536
\* values a byte read outside the buffer may have
JunkBytes == {0, 32}

\* the class-specific rc6DecryptInPlace
Rc6DecryptInPlace(cls, encryptionEnabled, buf, start, length, ctx, junk) ==
    IF cls = "Packer"
    THEN PackerRc6DecryptInPlace(encryptionEnabled, buf, start, length, ctx, junk)
    ELSE FileRc6DecryptInPlace(buf, start, length, ctx, junk)

(***************************************************************************)
(* loadImage, "Decrypt file contents if needed": the loop over the file    *)
(* headers with the running cursor.  Once file header i starts at or past  *)
(* the end of the buffer, it and every later header and the cursor lie     *)
(* outside the buffer: the remaining iterations change nothing inside it.  *)
(***************************************************************************)
RECURSIVE ContentLoop(_, _, _, _, _, _, _, _, _)
ContentLoop(cls, enabled, decrypt, buf, numFiles, v3, junk, i, cur) ==
    IF i >= numFiles THEN [buf |-> buf, cur |-> cur, oob |-> FALSE]
    ELSE IF FileHeaderAt(i) >= Len(buf) THEN [buf |-> buf, cur |-> cur, oob |-> TRUE]
    ELSE LET off == AddSat(FileHeaderAt(i), StoredLengthOff(v3))
             storedLength == U32At(buf, off, junk)
             r == IF decrypt
                  THEN Rc6DecryptInPlace(cls, enabled, buf, cur, storedLength, fileContentContext_,
                                         junk)
                  ELSE [buf |-> buf, cur |-> cur, oob |-> FALSE]
             rest == ContentLoop(cls, enabled, decrypt, r.buf, numFiles, v3, junk, i + 1, r.cur)
         IN [buf |-> rest.buf, cur |-> rest.cur,
             oob |-> rest.oob \/ r.oob \/ ReadsOutside(buf, off, 4)]

(***************************************************************************)
(* OpenixIMGFile::loadFileList: one FileInfo per file header.              *)
(***************************************************************************)
FileInfoAt(buf, v3, junk, i) ==
    LET base == FileHeaderAt(i)
    IN [filename |-> StripTrailing(CStrFrom(buf, AddSat(base, FilenameOff(v3)), junk, JunkRun)),
        maintype |-> StripTrailing(BytesAt(buf, AddSat(base, 8), IMAGEWTY_FHDR_MAINTYPE_LEN, junk)),
        subtype |-> StripTrailing(BytesAt(buf, AddSat(base, 16), IMAGEWTY_FHDR_SUBTYPE_LEN, junk)),
        storedLength |-> U32At(buf, AddSat(base, StoredLengthOff(v3)), junk),
        originalLength |-> U32At(buf, AddSat(base, OriginalLengthOff(v3)), junk),
        offset |-> U32At(buf, AddSat(base, OffsetOff(v3)), junk)]

loadFileList(buf, hdr, junk) ==
    Seq1([i \in 1..NumFiles(hdr) |-> FileInfoAt(buf, IsV3(hdr), junk, i - 1)], NumFiles(hdr))

\* the file-header table [1024, 1024 + numFiles * 1024) is not inside the buffer
TableOutside(buf, numFiles) ==
    numFiles > 0 /\ numFiles > (Len(buf) - IMAGEWTY_FILEHDR_LEN) \div IMAGEWTY_FILEHDR_LEN

\* the table ends so far outside the buffer that walking it faults
Faults(buf, numFiles) ==
    numFiles > 0
    /\ numFiles > (Len(buf) + MappedSlack - IMAGEWTY_FILEHDR_LEN) \div IMAGEWTY_FILEHDR_LEN


(***************************************************************************)
(* The file system the container reads: a path is absent, a directory, or  *)
(* a regular file with its bytes that can or cannot be opened for reading. *)
(***************************************************************************)
NoFile == [kind |-> "none", readable |-> FALSE, bytes |-> <<>>]
Dir == [kind |-> "dir", readable |-> FALSE, bytes |-> <<>>]
RegularFile(b) == [kind |-> "file", readable |-> TRUE, bytes |-> b]

\* std::vector::resize: cut, or extend with zero bytes
Resize(v, n) == Seq1([i \in 1..n |-> IF i <= Len(v) THEN v[i] ELSE 0], n)

(***************************************************************************)
(* loadImage of either class.  o is the object before the call, d the file *)
(* system, junk the value of bytes read outside the buffer.  The result is *)
(* the object after the call, the value returned, whether the call touched *)
(* memory outside the buffer (oob) and whether it did so far enough to     *)
(* fault for certain.                                                      *)
(***************************************************************************)
LoadResult(o, ret, oob, fault) == [obj |-> o, ret |-> ret, oob |-> oob, fault |-> fault]

(***************************************************************************)
(* Images on disk.  ImageHeaderBytes and FileHeaderBytes lay the members   *)
(* of the two structs out as OpenixIMGWTY.hpp declares them.               *)
(***************************************************************************)
RECURSIVE Concat(_)
Concat(ss) == IF ss = <<>> THEN <<>> ELSE ss[1] \o Concat(Tail(ss))

PadTo(b, n, fill) == Seq1([i \in 1..n |-> IF i <= Len(b) THEN b[i] ELSE fill], n)

\* the union of ImageHeader: the v3 arm has one more u32 in front
HeaderUnion(v3, pid, vid, hw, fw, numFiles, val1024_2) ==
    (IF v3 THEN U32LE(0) ELSE <<>>)
    \o Concat(<<U32LE(pid), U32LE(vid), U32LE(hw), U32LE(fw), U32LE(1),
                U32LE(IMAGEWTY_FILEHDR_LEN), U32LE(numFiles), U32LE(val1024_2)>>)

ImageHeaderBytes(hv, ver, size, pid, vid, hw, fw, numFiles, val1024_2) ==
    PadTo(Concat(<<IMAGEWTY_MAGIC, U32LE(hv), U32LE(IF hv = HEADER_VERSION_V3 THEN 96 ELSE 80),
                   U32LE(80740352), U32LE(ver), U32LE(size), U32LE(IMAGEWTY_FILEHDR_LEN),
                   HeaderUnion(hv = HEADER_VERSION_V3, pid, vid, hw, fw, numFiles, val1024_2)>>),
          IMAGEWTY_FILEHDR_LEN, 0)

FileHeaderBytes(v3, filename, maintype, subtype, stored, original, offset) ==
    PadTo(Concat(<<U32LE(IMAGEWTY_FHDR_FILENAME_LEN), U32LE(IMAGEWTY_FILEHDR_LEN),
                   PadTo(maintype, IMAGEWTY_FHDR_MAINTYPE_LEN, 32),
                   PadTo(subtype, IMAGEWTY_FHDR_SUBTYPE_LEN, 32),
                   IF v3
                   THEN Concat(<<U32LE(0), PadTo(filename, IMAGEWTY_FHDR_FILENAME_LEN, 0),
                                 U32LE(stored), U32LE(0), U32LE(original), U32LE(0), U32LE(offset)>>)
                   ELSE Concat(<<U32LE(0), U32LE(stored), U32LE(original), U32LE(offset), U32LE(0),
                                 PadTo(filename, IMAGEWTY_FHDR_FILENAME_LEN, 0)>>)>>),
          IMAGEWTY_FILEHDR_LEN, 0)

Payload(n, seed) == [i \in 1..n |-> (seed + 7 * i) % 256]

\* the three encryption passes a packer applies, the inverse of the load path
EncryptImage(plain, numFiles) ==
    LET a == EncryptBlocks(plain, 0, IMAGEWTY_FILEHDR_LEN \div RC6_BLOCK, headerContext_)
        b == EncryptBlocks(a, IMAGEWTY_FILEHDR_LEN,
                           (numFiles * IMAGEWTY_FILEHDR_LEN) \div RC6_BLOCK, fileHeadersContext_)
        start == IMAGEWTY_FILEHDR_LEN + numFiles * IMAGEWTY_FILEHDR_LEN
    IN EncryptBlocks(b, start, (Len(plain) - start) \div RC6_BLOCK, fileContentContext_)

\* character codes: a = 97, b = 98, space = 32
NameA == <<97>>
NameASpace == <<97, 32>>
NameB == <<98>>
\* names asked for in lookups
Names == {NameA, NameASpace, NameB}

\* v1 dialect, not encrypted, two files; the second filename is "a ", the
\* format field version carries the value 0x0300 and the reserved member
\* val1024_2, where the v3 dialect has num_files, the value 2
ImgV1 ==
    Concat(<<ImageHeaderBytes(256, 768, 3120, 4660, 32903, 17, 256, 2, 2),
             FileHeaderBytes(FALSE, NameA, <<66>>, <<83>>, 32, 20, 3072),
             FileHeaderBytes(FALSE, NameASpace, <<67>>, <<84>>, 16, 10, 3104),
             Payload(32, 1), Payload(16, 100)>>)

\* v3 dialect, one file, before encryption
PlainV3(seed) ==
    Concat(<<ImageHeaderBytes(HEADER_VERSION_V3, 1049140, 2080, 4661, 32904, 18, 257, 1,
                              IMAGEWTY_FILEHDR_LEN),
             FileHeaderBytes(TRUE, NameB, <<66>>, <<83>>, 32, 20, 2048),
             Payload(32, seed)>>)
ImgV3Enc == EncryptImage(PlainV3(3), 1)
\* an image of the same length with another payload
ImgV3EncAlt == EncryptImage(PlainV3(9), 1)

\* a header that announces one file, cut right after the image header
ImgShort == ImageHeaderBytes(256, 1049140, 2064, 1, 2, 3, 4, 1, IMAGEWTY_FILEHDR_LEN)

\* one file whose offset + stored_length reaches past the end of the image
ImgOver ==
    Concat(<<ImageHeaderBytes(256, 1049140, 2064, 1, 2, 3, 4, 1, IMAGEWTY_FILEHDR_LEN),
             FileHeaderBytes(FALSE, NameA, <<66>>, <<83>>, 32, 20, 2048),
             Payload(16, 5)>>)

\* a file that is no image, encrypted or not: decrypted under the header key
\* it starts with "NOTIMAGE" and is zero from there on
ImgBad == EncryptBlocks(PadTo(<<78, 79, 84, 73, 77, 65, 71, 69>>, IMAGEWTY_FILEHDR_LEN, 0), 0,
                        IMAGEWTY_FILEHDR_LEN \div RC6_BLOCK, headerContext_)

(***************************************************************************)
(* Encrypted v3 images with several files.  A layout lists, in header      *)
(* table order, the stored_length and the offset of every file entry; the  *)
(* payload region starts right after the table and is as long as the sum   *)
(* of the stored lengths.                                                  *)
(***************************************************************************)
Entry(stored, offset) == [stored |-> stored, offset |-> offset]

RECURSIVE StoredSum(_, _)
\* the sum of stored_length of the first n entries
StoredSum(entries, n) ==
    IF n = 0 THEN 0 ELSE StoredSum(entries, n - 1) + entries[n].stored

PayloadStart(numFiles) == IMAGEWTY_FILEHDR_LEN + numFiles * IMAGEWTY_FILEHDR_LEN

TiledPlain(entries) ==
    LET n == Len(entries)
        total == StoredSum(entries, n)
    IN Concat(<<ImageHeaderBytes(HEADER_VERSION_V3, 1049140, PayloadStart(n) + total,
                                 4662, 32905, 19, 258, n, IMAGEWTY_FILEHDR_LEN),
                Concat([i \in 1..n |->
                          FileHeaderBytes(TRUE, <<96 + i>>, <<66>>, <<83>>, entries[i].stored,
                                          entries[i].stored, entries[i].offset)]),
                Payload(total, 11)>>)

TiledImage(entries) == EncryptImage(TiledPlain(entries), Len(entries))

\* the layouts a rewritten tiled.img can have, by name
TileNames == {"16+32", "32+16 swapped", "16+32+16 rotated", "20+16", "24+24", "8+32",
              "40+16", "0+16"}
Layout(t) ==
    CASE t = "16+32" -> <<Entry(16, 3072), Entry(32, 3088)>>
      [] t = "32+16 swapped" -> <<Entry(32, 3088), Entry(16, 3072)>>
      [] t = "16+32+16 rotated" -> <<Entry(16, 4144), Entry(32, 4096), Entry(16, 4128)>>
      [] t = "20+16" -> <<Entry(20, 3072), Entry(16, 3092)>>
      [] t = "24+24" -> <<Entry(24, 3072), Entry(24, 3096)>>
      [] t = "8+32" -> <<Entry(8, 3072), Entry(32, 3080)>>
      [] t = "40+16" -> <<Entry(40, 3072), Entry(16, 3112)>>
      [] OTHER -> <<Entry(0, 3072), Entry(16, 3072)>>
Tiles == [t \in TileNames |-> TiledImage(Layout(t))]

\* every content a regular file of the model can have
Contents ==
    {ImgV1, ImgV3Enc, ImgV3EncAlt, ImgBad, ImgShort, ImgOver} \cup {Tiles[t] : t \in TileNames}
Classes == {"File", "Packer"}

\* the body of loadImage from "Check if the image is encrypted" on, for a
\* buffer that holds bytes: the buffer, the header copy and (OpenixIMGFile)
\* the file list it leaves
ParseImage(cls, enabled, bytes, junk) ==
    LET size == Len(bytes)
        hdr0 == BytesAt(bytes, 0, SIZEOF_IMAGEHEADER, junk)
        isEncrypted == SubSeq(hdr0, 1, IMAGEWTY_MAGIC_LEN) # IMAGEWTY_MAGIC
        dec == isEncrypted /\ enabled
        none(b) == [buf |-> b, cur |-> 0, oob |-> FALSE]
        r1 == IF dec
              THEN Rc6DecryptInPlace(cls, enabled, bytes, 0,
                                     IMAGEWTY_FILEHDR_LEN, headerContext_, junk)
              ELSE none(bytes)
        hdr1 == IF dec THEN BytesAt(r1.buf, 0, SIZEOF_IMAGEHEADER, junk) ELSE hdr0
        numFiles == NumFiles(hdr1)
        r2 == IF dec
              THEN Rc6DecryptInPlace(cls, enabled, r1.buf, IMAGEWTY_FILEHDR_LEN,
                                     MulHdrLen(numFiles), fileHeadersContext_, junk)
              ELSE none(r1.buf)
        fault == Faults(bytes, numFiles)
        r3 == IF fault THEN none(r2.buf)
              ELSE ContentLoop(cls, enabled, dec, r2.buf, numFiles, IsV3(hdr1), junk,
                               0, AddSat(IMAGEWTY_FILEHDR_LEN, MulHdrLen(numFiles)))
        oob == \/ size < SIZEOF_IMAGEHEADER
               \/ r1.oob \/ r2.oob \/ r3.oob
               \/ (cls = "File" /\ TableOutside(bytes, numFiles))
    IN [imageData_ |-> r3.buf, imageHeader_ |-> hdr1, isEncrypted_ |-> isEncrypted,
        fileList_ |-> IF cls = "Packer" \/ fault THEN <<>> ELSE loadFileList(r3.buf, hdr1, junk),
        oob |-> oob \/ fault, fault |-> fault]

\* ParseImage of every content, evaluated once
Parsed ==
    [cls \in Classes, enabled \in BOOLEAN, bytes \in Contents, junk \in JunkBytes |->
        ParseImage(cls, enabled, bytes, junk)]

\* the members loadImage assigns on its way to "return true"; p is the
\* ParseImage result
Loaded(cls, o, path, size, p) ==
    LET common == [o EXCEPT !.imageSize_ = size,
                            !.imageData_ = p.imageData_,
                            !.imageFilePath_ = path,
                            !.imageHeader_ = p.imageHeader_,
                            !.isEncrypted_ = p.isEncrypted_,
                            !.imageLoaded_ = TRUE]
    IN IF cls = "Packer" \/ p.fault THEN common
       ELSE [common EXCEPT
               !.hardwareId_ = IF IsV3(p.imageHeader_) THEN v3_hardware_id(p.imageHeader_)
                               ELSE v1_hardware_id(p.imageHeader_),
               !.firmwareId_ = IF IsV3(p.imageHeader_) THEN v3_firmware_id(p.imageHeader_)
                               ELSE v1_firmware_id(p.imageHeader_),
               !.pid_ = IF IsV3(p.imageHeader_) THEN v3_pid(p.imageHeader_)
                        ELSE v1_pid(p.imageHeader_),
               !.vid_ = IF IsV3(p.imageHeader_) THEN v3_vid(p.imageHeader_)
                        ELSE v1_vid(p.imageHeader_),
               !.fileList_ = p.fileList_]

LoadDone(cls, o, path, size, p) == LoadResult(Loaded(cls, o, path, size, p), TRUE, p.oob, p.fault)

LoadParsed(cls, o, path, bytes, junk) ==
    LoadDone(cls, o, path, Len(bytes), Parsed[cls, o.encryptionEnabled_, bytes, junk])

LoadImage(cls, o, path, d, junk) ==
    LET f == d[path]
        size == Len(f.bytes)
    IN IF f.kind = "none" THEN LoadResult(o, FALSE, FALSE, FALSE)
       \* fs::file_size throws for a directory: the catch block runs
       ELSE IF f.kind = "dir"
       THEN LoadResult([o EXCEPT !.imageLoaded_ = FALSE], FALSE, FALSE, FALSE)
       ELSE IF size = 0
       THEN LoadResult([o EXCEPT !.imageSize_ = 0], FALSE, FALSE, FALSE)
       ELSE IF ~f.readable
       THEN LoadResult([o EXCEPT !.imageSize_ = size, !.imageData_ = Resize(o.imageData_, size)],
                       FALSE, FALSE, FALSE)
       ELSE LoadParsed(cls, o, path, f.bytes, junk)

Paths == {"v1.img", "v3e.img", "bad.img", "short.img", "over.img", "empty.img",
          "locked.img", "dir", "gone.img", "tiled.img"}

\* what each path holds when nothing has touched it
Original(p) ==
    CASE p = "v1.img" -> RegularFile(ImgV1)
      [] p = "v3e.img" -> RegularFile(ImgV3Enc)
      [] p = "bad.img" -> RegularFile(ImgBad)
      [] p = "short.img" -> RegularFile(ImgShort)
      [] p = "over.img" -> RegularFile(ImgOver)
      [] p = "empty.img" -> RegularFile(<<>>)
      [] p = "locked.img" -> [RegularFile(Payload(RC6_BLOCK, 0)) EXCEPT !.readable = FALSE]
      [] p = "dir" -> Dir
      [] OTHER -> NoFile

\* the same-length contents a file is rewritten with
Rewritten(p) == IF p = "v3e.img" THEN RegularFile(ImgV3EncAlt) ELSE Original(p)

\* the file system: disk[p] says what happened to path p (a layout name: the
\* path was written with the image of that layout), Files(disk)[p] is what the
\* path holds
Files(d) ==
    [p \in Paths |->
        CASE d[p] = "original" -> Original(p)
          [] d[p] = "removed" -> NoFile
          [] d[p] = "unreadable" -> [Original(p) EXCEPT !.readable = FALSE]
          [] d[p] \in TileNames -> RegularFile(Tiles[d[p]])
          [] OTHER -> Rewritten(p)]

Disk0 == [p \in Paths |-> "original"]

(***************************************************************************)
(* OpenixCFG: the DragonEx configuration document and its parser.          *)
(*                                                                         *)
(* A line of text is a sequence of one-character strings.  A pointer to a *)
(* Group is its position in the group list (0 is nullptr); a pointer to a *)
(* Variable of a group is the pair of the group's position and the         *)
(* variable's position in the group (NullVariable is nullptr).  A Number   *)
(* is held as its 32-bit pattern, written as the signed integer with that *)
(* pattern.                                                                *)
(***************************************************************************)
Lower == {"a","b","c","d","e","f","g","h","i","j","k","l","m",
          "n","o","p","q","r","s","t","u","v","w","x","y","z"}
Upper == {"A","B","C","D","E","F","G","H","I","J","K","L","M",
          "N","O","P","Q","R","S","T","U","V","W","X","Y","Z"}
DigitChars == {"0","1","2","3","4","5","6","7","8","9"}

\* a test for letters that takes the digits too
IsAlphaOrDigit(c) == c \in Lower \cup Upper \cup DigitChars

\* <cctype> in the "C" locale
isspace(c) == c \in {" ", "\t", "\n", "\r", "\f"}
isalpha(c) == c \in Lower \cup Upper
isdigit(c) == c \in DigitChars
isalnum(c) == isalpha(c) \/ isdigit(c)

\* std::string::substr(n)
Drop(line, n) == SubSeq(line, n + 1, Len(line))

\* the number of leading white-space characters of the line from position from
SpaceRun(line, from) ==
    CHOOSE n \in 0..(Len(line) + 1 - from) :
        /\ \A i \in 0..(n - 1) : isspace(line[from + i])
        /\ from + n > Len(line) \/ ~isspace(line[from + n])

\* skipWhitespace: the line without its leading white space; a line whose
\* first other character is ';' becomes empty
skipWhitespace(line) ==
    LET pos == SpaceRun(line, 1)
    IN  IF pos < Len(line) /\ line[pos + 1] = ";" THEN <<>> ELSE Drop(line, pos)

\* parseIdentifier: the loop tests line[0] == '.', so a line that starts
\* with '.' is consumed whole
IdentifierRun(line) ==
    IF Len(line) > 0 /\ line[1] = "." THEN Len(line)
    ELSE CHOOSE n \in 0..Len(line) :
            /\ \A i \in 1..n : isalnum(line[i]) \/ line[i] = "_"
            /\ n = Len(line) \/ ~(isalnum(line[n + 1]) \/ line[n + 1] = "_")

IdentifierOf(l) ==
    [val |-> SubSeq(l, 1, IdentifierRun(l)), line |-> Drop(l, IdentifierRun(l))]

parseIdentifier(line) == IdentifierOf(skipWhitespace(line))

\* the loop of parseString from position p: the text read and the position
\* the loop stops at
RECURSIVE StringRun(_, _, _, _)
StringRun(line, p, delim, acc) ==
    IF p > Len(line) \/ line[p] = delim THEN [val |-> acc, pos |-> p]
    ELSE IF line[p] = "\\" /\ p + 1 <= Len(line)
         THEN StringRun(line, p + 2, delim, Append(acc, line[p + 1]))
         ELSE StringRun(line, p + 1, delim, Append(acc, line[p]))

StringEnd(l, r) ==
    [val |-> r.val, line |-> Drop(l, IF r.pos <= Len(l) THEN r.pos ELSE r.pos - 1)]

StringOf(l) ==
    IF l = <<>> \/ l[1] \notin {"\"", "'"} THEN [val |-> <<>>, line |-> l]
    ELSE StringEnd(l, StringRun(l, 2, l[1], <<>>))

parseString(line) == StringOf(skipWhitespace(line))

\* the value of a digit character in std::stol
DigitValue(c) ==
    CASE c = "0" -> 0 [] c = "1" -> 1 [] c = "2" -> 2 [] c = "3" -> 3
      [] c = "4" -> 4 [] c = "5" -> 5 [] c = "6" -> 6 [] c = "7" -> 7
      [] c = "8" -> 8 [] c = "9" -> 9
      [] c \in {"a", "A"} -> 10 [] c \in {"b", "B"} -> 11
      [] c \in {"c", "C"} -> 12 [] c \in {"d", "D"} -> 13
      [] c \in {"e", "E"} -> 14 [] c \in {"f", "F"} -> 15
      [] OTHER -> 99

\* the magnitude stol accumulates, as four 16-bit limbs, lowest first; over
\* says that it left 64 bits
NoDigits == [limbs |-> <<0, 0, 0, 0>>, over |-> FALSE]

\* acc * base + d
MulAdd(acc, base, d) ==
    LET c1 == acc.limbs[1] * base + d
        c2 == acc.limbs[2] * base + c1 \div 65536
        c3 == acc.limbs[3] * base + c2 \div 65536
        c4 == acc.limbs[4] * base + c3 \div 65536
    IN [limbs |-> <<c1 % 65536, c2 % 65536, c3 % 65536, c4 % 65536>>,
        over |-> acc.over \/ c4 >= 65536]

RECURSIVE DigitRun(_, _, _, _)
DigitRun(line, p, base, acc) ==
    IF p > Len(line) \/ DigitValue(line[p]) >= base THEN [val |-> acc, pos |-> p]
    ELSE DigitRun(line, p + 1, base, MulAdd(acc, base, DigitValue(line[p])))

\* the signed magnitude is a value of long (64 bits): at most 2^63 - 1, or
\* 2^63 with the sign
FitsLong(neg, m) ==
    /\ ~m.over
    /\ m.limbs[4] < 32768 \/ (neg /\ m.limbs = <<0, 0, 0, 32768>>)

\* std::stol(line, &endPos, 0) for a line that starts with a digit or '-':
\* an optional sign, then hexadecimal after 0x, octal after 0, else decimal.
\* ok is false where stol throws: no digit (invalid_argument) or a value
\* that is no long (out_of_range).  val is the long: its sign and magnitude.
Stol(line) ==
    LET neg == line[1] = "-"
        s == IF neg THEN 2 ELSE 1
        hex == /\ s + 2 <= Len(line) /\ line[s] = "0" /\ line[s + 1] \in {"x", "X"}
               /\ DigitValue(line[s + 2]) < 16
        base == IF hex THEN 16 ELSE IF s <= Len(line) /\ line[s] = "0" THEN 8 ELSE 10
        r == DigitRun(line, IF hex THEN s + 2 ELSE s, base, NoDigits)
        none == [ok |-> FALSE, val |-> [neg |-> FALSE, limbs |-> NoDigits.limbs], endPos |-> 0]
    IN  IF s > Len(line) \/ ~isdigit(line[s]) THEN none
        ELSE IF ~FitsLong(neg, r.val) THEN none
        ELSE [ok |-> TRUE, val |-> [neg |-> neg, limbs |-> r.val.limbs], endPos |-> r.pos - 1]

\* the conversion keeping the sign and the low 16 bits
Uint32Low(long) ==
    IF long.neg THEN 0 - long.limbs[1] ELSE long.limbs[1]

\* the conversion of a long to the uint32_t parameter of Variable::setNumber:
\* the value modulo 2^32, as the signed integer with that 32-bit pattern
Uint32Of(long) ==
    LET low == IF long.limbs[2] >= 32768
               THEN (long.limbs[2] - 65536) * 65536 + long.limbs[1]
               ELSE long.limbs[2] * 65536 + long.limbs[1]
    IN IF long.neg /\ low # (0 - 32768) * 65536 THEN 0 - low ELSE low

\* snprintf("%x") of a 32-bit pattern
HexDigit(d) == <<"0","1","2","3","4","5","6","7","8","9","a","b","c","d","e","f">>[d + 1]
RECURSIVE HexOf(_)
HexOf(n) == IF n < 16 THEN <<HexDigit(n)>> ELSE Append(HexOf(n \div 16), HexDigit(n % 16))
Hex4(n) == <<HexDigit(n \div 4096), HexDigit((n \div 256) % 16),
             HexDigit((n \div 16) % 16), HexDigit(n % 16)>>
FormatHex(n) ==
    IF n >= 0 THEN HexOf(n)
    ELSE LET lo == n % 65536
             hi == ((n - lo) \div 65536) % 65536
         IN  HexOf(hi) \o Hex4(lo)

\* Variable::Variable(name, type)
Variable(name, type) ==
    [name |-> name, type |-> type, num |-> 0, str |-> <<>>, items |-> <<>>]
NullVariable == [g |-> 0, v |-> 0]

\* Group::Group(name)
Group(name) == [name |-> name, variables |-> <<>>]

\* Group::addVariable
addVariable(group, var) == [group EXCEPT !.variables = Append(@, var)]

\* OpenixCFG::OpenixCFG(), and the document freeAll leaves
NewCFG == [headGroup_ |-> <<>>, groupMap_ |-> <<>>, variableMap_ |-> <<>>]

\* std::unordered_map::operator[] followed by an assignment
MapKeep(map, key, value) ==
    IF key \in DOMAIN map THEN map
    ELSE [k \in DOMAIN map \cup {key} |-> IF k = key THEN value ELSE map[k]]
MapPut(map, key, value) ==
    [k \in DOMAIN map \cup {key} |-> IF k = key THEN value ELSE map[k]]

\* OpenixCFG::findGroup: the group the map holds under the name
findGroup(doc, name) ==
    IF name \in DOMAIN doc.groupMap_ THEN doc.groupMap_[name] ELSE 0

\* OpenixCFG::findVariable(name)
findVariable(doc, name) ==
    IF name \in DOMAIN doc.variableMap_ THEN doc.variableMap_[name] ELSE NullVariable

\* OpenixCFG::findVariable(name, groupName): the first variable of that name
\* in the group findGroup returns
findVariableInGroup(doc, name, groupName) ==
    LET g == findGroup(doc, groupName)
        vs == IF g = 0 THEN <<>> ELSE doc.headGroup_[g].variables
        hits == {i \in 1..Len(vs) : vs[i].name = name}
    IN  IF hits = {} THEN NullVariable
        ELSE [g |-> g, v |-> CHOOSE i \in hits : \A j \in hits : i <= j]

\* the Variable a pointer designates
Deref(doc, p) == doc.headGroup_[p.g].variables[p.v]

\* OpenixCFG::addGroup: the group goes to the end of the list and takes the
\* map entry of its name; variableMap_ is not touched
addGroup(doc, group) ==
    [doc EXCEPT !.headGroup_ = Append(@, group),
                !.groupMap_ = MapPut(@, group.name, Len(doc.headGroup_) + 1)]

\* the while loop of parseExpression, one operator per step of its body; each
\* gives the concatenated result, whether a string or identifier was read,
\* and the rest of the line
RECURSIVE ExpressionLoop(_, _, _, _)

\* after a piece: ".." continues the loop, anything else ends it
ExpressionRest(doc, rest, result) ==
    IF Len(rest) >= 2 /\ rest[1] = "." /\ rest[2] = "."
    THEN ExpressionLoop(doc, Drop(rest, 2), result, TRUE)
    ELSE [result |-> result, isString |-> TRUE, line |-> rest]

ExpressionPiece(doc, piece, result) ==
    ExpressionRest(doc, skipWhitespace(piece.line), result \o piece.val)

\* the text an identifier stands for: the value of the STRING variable of
\* that name, "0x%x" of the NUMBER variable, else the identifier itself
ResolvedVariable(ident, var) ==
    IF var.type = "STRING" THEN var.str
    ELSE IF var.type = "NUMBER" THEN <<"0", "x">> \o FormatHex(var.num)
    ELSE ident

Resolved(doc, ident, p) ==
    IF p = NullVariable THEN ident ELSE ResolvedVariable(ident, Deref(doc, p))

ExpressionIdentifier(doc, id, result) ==
    ExpressionPiece(doc, [val |-> Resolved(doc, id.val, findVariable(doc, id.val)),
                          line |-> id.line], result)

ExpressionStep(doc, l, result, isString) ==
    IF l = <<>> THEN [result |-> result, isString |-> isString, line |-> l]
    ELSE IF l[1] \in {"\"", "'"} THEN ExpressionPiece(doc, parseString(l), result)
    ELSE IF isalpha(l[1]) \/ l[1] \in {"_", "."}
    THEN ExpressionIdentifier(doc, parseIdentifier(l), result)
    ELSE [result |-> result, isString |-> isString, line |-> l]

ExpressionLoop(doc, line, result, isString) ==
    ExpressionStep(doc, skipWhitespace(line), result, isString)

\* the end of parseExpression without the group lookup
TaggedString(doc, e) ==
    IF e.isString
    THEN [var |-> [Variable(<<>>, "STRING") EXCEPT !.str = e.result], line |-> e.line]
    ELSE [var |-> Variable(<<>>, "NUMBER"), line |-> e.line]

\* the end of parseExpression: a REFERENCE where the text read names a group
\* of the document and holds no double quote, else a STRING, or the NUMBER 0
\* where nothing was read
Tagged(doc, e) ==
    IF /\ e.isString /\ e.result # <<>>
       /\ \A i \in 1..Len(e.result) : e.result[i] # "\""
       /\ findGroup(doc, e.result) # 0
    THEN [var |-> [Variable(<<>>, "REFERENCE") EXCEPT !.str = e.result], line |-> e.line]
    ELSE IF e.isString
    THEN [var |-> [Variable(<<>>, "STRING") EXCEPT !.str = e.result], line |-> e.line]
    ELSE [var |-> Variable(<<>>, "NUMBER"), line |-> e.line]

\* the number stol read, or the loop where stol threw or was not tried
NumberOrText(doc, l, n) ==
    IF n.ok THEN [var |-> [Variable(<<>>, "NUMBER") EXCEPT !.num = Uint32Of(n.val)],
                  line |-> Drop(l, n.endPos)]
    ELSE Tagged(doc, ExpressionLoop(doc, l, <<>>, FALSE))

ExpressionOf(doc, l) ==
    IF l = <<>> THEN [var |-> Variable(<<>>, "STRING"), line |-> l]
    ELSE NumberOrText(doc, l, IF isdigit(l[1]) \/ l[1] = "-" THEN Stol(l)
                              ELSE [ok |-> FALSE, val |-> 0, endPos |-> 0])

\* OpenixCFG::parseExpression: the Variable of the value and the rest of the line
parseExpression(doc, line) == ExpressionOf(doc, skipWhitespace(line))

\* OpenixCFG::parseKeyValue, one operator per step: ok is false where it
\* returns nullptr
NoVariable(line) == [ok |-> FALSE, var |-> Variable(<<>>, "STRING"), line |-> line]

KeyValueOf(name, e) == [ok |-> TRUE, var |-> [e.var EXCEPT !.name = name], line |-> e.line]

KeyValueAt(doc, name, l) ==
    IF l = <<>> \/ l[1] # "=" THEN NoVariable(l)
    ELSE KeyValueOf(name, parseExpression(doc, Drop(l, 1)))

KeyValueNamed(doc, id) ==
    IF id.val = <<>> THEN NoVariable(id.line)
    ELSE KeyValueAt(doc, id.val, skipWhitespace(id.line))

parseKeyValue(doc, line) == KeyValueNamed(doc, parseIdentifier(skipWhitespace(line)))

\* the do-while loop of parseListItem, one operator per step of its body
RECURSIVE ListLoop(_, _, _)

ListEnd(doc, l, foundComma, items) ==
    IF l # <<>> /\ l[1] = "}" THEN [items |-> items, line |-> Drop(l, 1)]
    ELSE IF foundComma THEN ListLoop(doc, l, items)
    ELSE [items |-> items, line |-> l]

ListComma(doc, l, items) ==
    IF l # <<>> /\ l[1] = "," THEN ListEnd(doc, Drop(l, 1), TRUE, items)
    ELSE ListEnd(doc, l, FALSE, items)

ListSubItem(doc, kv, items) ==
    ListComma(doc, skipWhitespace(kv.line), IF kv.ok THEN Append(items, kv.var) ELSE items)

ListStep(doc, l, items) ==
    IF l = <<>> THEN [items |-> items, line |-> l]
    ELSE IF l[1] = "}" THEN [items |-> items, line |-> Drop(l, 1)]
    ELSE ListSubItem(doc, parseKeyValue(doc, l), items)

ListLoop(doc, line, items) == ListStep(doc, skipWhitespace(line), items)

\* OpenixCFG::parseListItem: an anonymous LIST_ITEM Variable with the
\* key-value pairs between the braces as its items
ListVariable(r) ==
    [ok |-> TRUE, var |-> [Variable(<<>>, "LIST_ITEM") EXCEPT !.items = r.items],
     line |-> r.line]

ListItemOf(doc, l) ==
    IF l = <<>> \/ l[1] # "{"
    THEN [ok |-> FALSE, var |-> Variable(<<>>, "LIST_ITEM"), line |-> l]
    ELSE ListVariable(ListLoop(doc, Drop(l, 1), <<>>))

parseListItem(doc, line) == ListItemOf(doc, skipWhitespace(line))

\* std::string::find(c, from): the first position of c at or after from,
\* 0 where find returns npos
Find(line, c, from) ==
    LET hits == {i \in from..Len(line) : line[i] = c}
    IN  IF hits = {} THEN 0 ELSE CHOOSE i \in hits : \A j \in hits : i <= j

\* the last position of the name that holds no white space, searched down
\* to firstNonSpace
LastNonSpace(groupName, firstNonSpace) ==
    CHOOSE n \in 0..Len(groupName) :
        /\ \A i \in (n + 1)..Len(groupName) : isspace(groupName[i])
        /\ n < firstNonSpace \/ ~isspace(groupName[n])

TrimmedFrom(groupName, firstNonSpace) ==
    IF firstNonSpace <= LastNonSpace(groupName, firstNonSpace)
    THEN SubSeq(groupName, firstNonSpace, LastNonSpace(groupName, firstNonSpace))
    ELSE <<>>

\* the group name without the white space around it
Trimmed(groupName) == TrimmedFrom(groupName, 1 + SpaceRun(groupName, 1))

\* OpenixCFG::parseGroup, one operator per step: ok is false where it returns
\* nullptr.  With nothing between the brackets lastNonSpace wraps to SIZE_MAX
\* and groupName[SIZE_MAX] is read outside the string; whatever that read
\* gives, substr yields the empty name and the function returns nullptr.
NoGroup == [ok |-> FALSE, group |-> Group(<<>>)]

GroupNamed(groupName) ==
    IF groupName = <<>> THEN NoGroup ELSE [ok |-> TRUE, group |-> Group(groupName)]

GroupBetween(line, startPos, endPos) ==
    IF endPos = 0 THEN NoGroup ELSE GroupNamed(Trimmed(SubSeq(line, startPos, endPos - 1)))

GroupFrom(line, startPos) ==
    IF startPos > Len(line) THEN NoGroup
    ELSE GroupBetween(line, startPos, Find(line, "]", startPos))

GroupAfter(line, open) ==
    IF open = 0 THEN NoGroup ELSE GroupFrom(line, open + 1 + SpaceRun(line, open + 1))

parseGroup(line) == GroupAfter(line, Find(line, "[", 1))

\* what loadFromStream gives: the document it leaves, the value it returned,
\* whether it threw std::runtime_error, and whether it dereferenced nullptr
StreamResult(doc, returned, threw, fault) ==
    [doc |-> doc, returned |-> returned, threw |-> threw, fault |-> fault]

\* currentGroup->addVariable(var), with variableMap_[var->getName()] = var
\* for a key-value line
AddToCurrent(doc, currentGroup, var, indexed) ==
    [doc EXCEPT !.headGroup_[currentGroup] = addVariable(@, var),
                !.variableMap_ =
                    IF indexed
                    THEN MapPut(@, var.name,
                                [g |-> currentGroup,
                                 v |-> Len(doc.headGroup_[currentGroup].variables) + 1])
                    ELSE @]

\* the getline loop of loadFromStream from line i on, one operator per kind
\* of line.  A '[' line parseGroup rejects and a key-value line parseKeyValue
\* rejects give nullptr, which is dereferenced for its name.
RECURSIVE StreamLoop(_, _, _, _)

StreamGroup(lines, i, doc, newGroup) ==
    IF newGroup.ok
    THEN StreamLoop(lines, i + 1, addGroup(doc, newGroup.group), Len(doc.headGroup_) + 1)
    ELSE StreamResult(doc, FALSE, FALSE, TRUE)

StreamListItem(lines, i, doc, currentGroup, item) ==
    StreamLoop(lines, i + 1, AddToCurrent(doc, currentGroup, item.var, FALSE), currentGroup)

StreamKeyValue(lines, i, doc, currentGroup, kv) ==
    IF kv.ok
    THEN StreamLoop(lines, i + 1, AddToCurrent(doc, currentGroup, kv.var, TRUE), currentGroup)
    ELSE StreamResult(doc, FALSE, FALSE, TRUE)

StreamEntry(lines, i, doc, currentGroup, line) ==
    IF line[1] = "{" THEN StreamListItem(lines, i, doc, currentGroup, parseListItem(doc, line))
    ELSE StreamKeyValue(lines, i, doc, currentGroup, parseKeyValue(doc, line))

StreamLine(lines, i, doc, currentGroup, line) ==
    IF line = <<>> \/ line[1] \in {";", "#"} THEN StreamLoop(lines, i + 1, doc, currentGroup)
    ELSE IF line[1] = "[" THEN StreamGroup(lines, i, doc, parseGroup(line))
    ELSE IF line[1] = "{" \/ isalpha(line[1])
    THEN IF currentGroup = 0 THEN StreamLoop(lines, i + 1, doc, currentGroup)
         ELSE StreamEntry(lines, i, doc, currentGroup, line)
    ELSE StreamResult(doc, FALSE, TRUE, FALSE)

StreamLoop(lines, i, doc, currentGroup) ==
    IF i > Len(lines) THEN StreamResult(doc, doc.headGroup_ # <<>>, FALSE, FALSE)
    ELSE StreamLine(lines, i, doc, currentGroup, skipWhitespace(lines[i]))

\* OpenixCFG::loadFromStream: freeAll, then the lines in turn
loadFromStream(lines) == StreamLoop(lines, 1, NewCFG, 0)

(***************************************************************************)
(* OpenixCFG::dumpToString.  The text is the sequence of its lines: every  *)
(* std::endl ends one.                                                     *)
(***************************************************************************)
\* operator<< of a uint32_t in decimal; the 32-bit pattern is taken as its
\* two 16-bit halves
RECURSIVE DecOf(_, _)
DecOf(hi, lo) ==
    IF hi = 0 /\ lo < 10 THEN <<HexDigit(lo)>>
    ELSE Append(DecOf(hi \div 10, ((hi % 10) * 65536 + lo) \div 10),
                HexDigit(((hi % 10) * 65536 + lo) % 10))
FormatDec(n) == DecOf(((n - (n % 65536)) \div 65536) % 65536, n % 65536)

IMAGE_CFG == <<"I", "M", "A", "G", "E", "_", "C", "F", "G">>

\* name = number, in hexadecimal inside the group IMAGE_CFG
DumpNumber(groupName, var) ==
    var.name \o <<" ", "=", " ">>
    \o (IF groupName = IMAGE_CFG THEN <<"0", "x">> \o FormatHex(var.num)
        ELSE FormatDec(var.num))
\* name = "string"
DumpString(var) == var.name \o <<" ", "=", " ", "\"">> \o var.str \o <<"\"">>
\* name = reference
DumpReference(var) == var.name \o <<" ", "=", " ">> \o var.str

\* the items of a list: a STRING and a REFERENCE item end with ", " and stay
\* on the line, a NUMBER item ends the line, a list inside a list is not
\* written.  out holds the lines finished, cur the line being written.
RECURSIVE DumpItems(_, _, _, _, _)
DumpItem(groupName, items, i, out, cur, item) ==
    IF item.type = "STRING"
    THEN DumpItems(groupName, items, i + 1, out, cur \o DumpString(item) \o <<",", " ">>)
    ELSE IF item.type = "REFERENCE"
    THEN DumpItems(groupName, items, i + 1, out, cur \o DumpReference(item) \o <<",", " ">>)
    ELSE IF item.type = "NUMBER"
    THEN DumpItems(groupName, items, i + 1, Append(out, cur \o DumpNumber(groupName, item)), <<>>)
    ELSE DumpItems(groupName, items, i + 1, out, cur)

DumpItems(groupName, items, i, out, cur) ==
    IF i > Len(items) THEN Append(out, cur \o <<"}", ",">>)
    ELSE DumpItem(groupName, items, i, out, cur, items[i])

\* the lines one variable of a group adds to out
DumpVariable(groupName, var, out) ==
    IF var.type = "NUMBER" THEN Append(out, DumpNumber(groupName, var))
    ELSE IF var.type = "STRING" THEN Append(out, DumpString(var))
    ELSE IF var.type = "REFERENCE" THEN Append(out, DumpReference(var))
    ELSE DumpItems(groupName, var.items, 1, out,
                   var.name \o (IF var.name = <<>> THEN <<>> ELSE <<"=">>) \o <<"{", " ">>)

RECURSIVE DumpVariables(_, _, _)
DumpVariables(group, v, out) ==
    IF v > Len(group.variables) THEN Append(out, <<>>)
    ELSE DumpVariables(group, v + 1, DumpVariable(group.name, group.variables[v], out))

RECURSIVE DumpGroups(_, _, _)
DumpGroups(doc, g, out) ==
    IF g > Len(doc.headGroup_) THEN out
    ELSE DumpGroups(doc, g + 1,
                    DumpVariables(doc.headGroup_[g], 1,
                                  Append(out, <<"[">> \o doc.headGroup_[g].name \o <<"]">>)))

NoConfiguration ==
    <<"N", "o", " ", "c", "o", "n", "f", "i", "g", "u", "r", "a", "t", "i", "o", "n", " ",
      "l", "o", "a", "d", "e", "d", ".">>

dumpToString(doc) ==
    IF doc.headGroup_ = <<>> THEN <<NoConfiguration>> ELSE DumpGroups(doc, 1, <<>>)

(***************************************************************************)
(* Texts to parse: every sequence of at most MaxLines lines of LinePool.   *)
(***************************************************************************)
MaxLines == 4

LineGroupA == <<"[", "A", "]">>
LineGroupB == <<" ", "[", " ", "B", " ", "]", " ", ";", "c">>
LineX == <<"x", "=", "1">>
LineY == <<"y", " ", "=", " ", "A">>
LineList == <<"{", "x", "=", "2", "}">>
LineOpenBracket == <<"[">>
LineUnknown == <<"?">>
LinePool == {LineGroupA, LineGroupB, LineX, LineY, LineList, LineOpenBracket, LineUnknown}

Inputs == UNION {[1..n -> LinePool] : n \in 0..MaxLines}

(***************************************************************************)
(* Texts for the serializer and the line dispatch: every sequence of at    *)
(* most MaxTextLines lines of TextPool.                                    *)
(***************************************************************************)
MaxTextLines == 3

TextGroupAB == <<"[", "A", " ", "B", "]">>
TextQuote == <<"x", " ", "=", " ", "'", "a", "\"", "b", "'">>
TextRefAB == <<"r", " ", "=", " ", "\"", "A", " ", "B", "\"">>
TextListString == <<"{", " ", "f", " ", "=", " ", "\"", "s", "\"", ",", " ", "}">>
TextDigit == <<" ", "1", "=", "2">>
TextPool == {LineGroupA, LineX, LineList, LineUnknown, LineOpenBracket,
             TextGroupAB, TextQuote, TextRefAB, TextListString, TextDigit}

TextInputs == UNION {[1..n -> TextPool] : n \in 0..MaxTextLines}

\* loadFromStream of every text
CfgParsed == [lines \in Inputs \cup TextInputs |-> loadFromStream(lines)]

\* names asked for, and groups built through the Group and Variable classes
VarNames == {<<"x">>, <<"y">>}
GroupNames == {<<"A">>, <<"B">>}
ApiGroups ==
    {addVariable(addVariable(Group(<<"B">>),
                             [Variable(<<"y">>, "STRING") EXCEPT !.str = <<"s">>]),
                 [Variable(<<"x">>, "NUMBER") EXCEPT !.num = 8])}
MaxGroups == 3

\* groups built through the Group and Variable classes for the serializer: a
\* STRING whose value is "A", and a LIST_ITEM variable that has a name
ApiString == addVariable(Group(<<"S">>), [Variable(<<"s">>, "STRING") EXCEPT !.str = <<"A">>])
ApiNamedList ==
    addVariable(Group(<<"L">>),
                [Variable(<<"l">>, "LIST_ITEM") EXCEPT
                    !.items = <<[Variable(<<"f">>, "STRING") EXCEPT !.str = <<"s">>]>>])
TextApiGroups == {ApiString, ApiNamedList}

(***************************************************************************)
(* OpenixPartition: the sys_partition.fex parser.  A line is a sequence of *)
(* one-character strings, pos a 1-based position in it.  Numbers are exact *)
(* below 2^31.                                                             *)
(***************************************************************************)
\* Partition::Partition()
Partition ==
    [name |-> <<>>, size |-> 0, downloadfile |-> <<>>, user_type |-> 0,
     keydata |-> FALSE, encrypt |-> FALSE, verify |-> FALSE, ro |-> FALSE]

\* OpenixPartition::OpenixPartition()
NewPartition == [mbrSize |-> 0, partitions |-> <<>>]

\* text as a sequence of one-character strings
KeyName == <<"n", "a", "m", "e">>
KeySize == <<"s", "i", "z", "e">>
KeyDownloadfile == <<"d", "o", "w", "n", "l", "o", "a", "d", "f", "i", "l", "e">>
KeyUserType == <<"u", "s", "e", "r", "_", "t", "y", "p", "e">>
KeyKeydata == <<"k", "e", "y", "d", "a", "t", "a">>
KeyEncrypt == <<"e", "n", "c", "r", "y", "p", "t">>
KeyVerify == <<"v", "e", "r", "i", "f", "y">>
KeyRo == <<"r", "o">>
SectionPartitionStart ==
    <<"[", "p", "a", "r", "t", "i", "t", "i", "o", "n", "_", "s", "t", "a", "r", "t", "]">>
SectionMbr == <<"[", "m", "b", "r", "]">>
SectionPartition == <<"[", "p", "a", "r", "t", "i", "t", "i", "o", "n", "]">>

\* the characters OpenixPartition::skipWhitespace passes and the trim erases
IsBlank(c) == c \in {" ", "\t", "\r"}

\* OpenixPartition::skipWhitespace: the position of the first character at
\* or after pos that is not blank
RECURSIVE PartSkipWhitespace(_, _)
PartSkipWhitespace(line, pos) ==
    IF pos <= Len(line) /\ IsBlank(line[pos]) THEN PartSkipWhitespace(line, pos + 1) ELSE pos

\* line.erase(0, find_first_not_of(" \t\r")), line.erase(find_last_not_of(" \t\r") + 1)
RECURSIVE TrimRight(_)
TrimRight(line) ==
    IF line # <<>> /\ IsBlank(line[Len(line)]) THEN TrimRight(SubSeq(line, 1, Len(line) - 1))
    ELSE line
Trim(line) == TrimRight(SubSeq(line, PartSkipWhitespace(line, 1), Len(line)))

\* OpenixPartition::parseIdentifier: the run of identifier characters from pos
IsPartIdentifierChar(c) ==
    isalnum(c) \/ c \in {"_", "-", ".", "/", "\\", ":", "#", "(", ")"}
RECURSIVE PartIdentifierRun(_, _, _)
PartIdentifierRun(line, pos, acc) ==
    IF pos <= Len(line) /\ IsPartIdentifierChar(line[pos])
    THEN PartIdentifierRun(line, pos + 1, Append(acc, line[pos]))
    ELSE [val |-> acc, pos |-> pos]
PartParseIdentifier(line, pos) == PartIdentifierRun(line, pos, <<>>)

\* OpenixPartition::parseString: the text between double quotes, a backslash
\* taking the next character as it is
RECURSIVE PartStringRun(_, _, _)
PartStringRun(line, pos, acc) ==
    IF pos > Len(line) THEN [val |-> acc, pos |-> pos]
    ELSE IF line[pos] = "\"" THEN [val |-> acc, pos |-> pos + 1]
    ELSE IF line[pos] = "\\" /\ pos + 1 <= Len(line)
    THEN PartStringRun(line, pos + 2, Append(acc, line[pos + 1]))
    ELSE PartStringRun(line, pos + 1, Append(acc, line[pos]))
PartParseString(line, pos) ==
    IF pos > Len(line) \/ line[pos] # "\"" THEN [val |-> <<>>, pos |-> pos]
    ELSE PartStringRun(line, pos + 1, <<>>)

\* OpenixPartition::parseNumber: hexadecimal after 0x or 0X, else decimal;
\* no digit gives 0
RECURSIVE PartDigits(_, _, _, _)
PartDigits(line, pos, base, acc) ==
    IF pos <= Len(line) /\ DigitValue(line[pos]) < base
    THEN PartDigits(line, pos + 1, base, acc * base + DigitValue(line[pos]))
    ELSE [val |-> acc, pos |-> pos]
PartNumberAt(line, pos) ==
    IF pos + 1 <= Len(line) /\ line[pos] = "0" /\ line[pos + 1] \in {"x", "X"}
    THEN PartDigits(line, pos + 2, 16, 0)
    ELSE PartDigits(line, pos, 10, 0)
PartParseNumber(line, pos) == PartNumberAt(line, PartSkipWhitespace(line, pos))

\* OpenixPartition::parseLine, one operator per step: the partition with the
\* field the key names set from the value
PartSetField(line, partition, key, pos) ==
    IF key = KeyName
    THEN [partition EXCEPT !.name = PartParseIdentifier(line, pos).val]
    ELSE IF key = KeySize
    THEN [partition EXCEPT !.size = PartParseNumber(line, pos).val]
    ELSE IF key = KeyDownloadfile
    THEN [partition EXCEPT !.downloadfile =
              IF line[pos] = "\"" THEN PartParseString(line, pos).val
              ELSE PartParseIdentifier(line, pos).val]
    ELSE IF key = KeyUserType
    THEN [partition EXCEPT !.user_type = PartParseNumber(line, pos).val]
    ELSE IF key = KeyKeydata
    THEN [partition EXCEPT !.keydata = PartParseNumber(line, pos).val # 0]
    ELSE IF key = KeyEncrypt
    THEN [partition EXCEPT !.encrypt = PartParseNumber(line, pos).val # 0]
    ELSE IF key = KeyVerify
    THEN [partition EXCEPT !.verify = PartParseNumber(line, pos).val # 0]
    ELSE IF key = KeyRo
    THEN [partition EXCEPT !.ro = PartParseNumber(line, pos).val # 0]
    ELSE partition

PartValueAt(line, partition, key, pos) ==
    IF pos > Len(line) THEN partition ELSE PartSetField(line, partition, key, pos)

PartEquals(line, partition, key, pos) ==
    IF pos > Len(line) \/ line[pos] # "=" THEN partition
    ELSE PartValueAt(line, partition, key, PartSkipWhitespace(line, pos + 1))

PartKeyed(line, partition, id) ==
    IF id.val = <<>> THEN partition
    ELSE PartEquals(line, partition, id.val, PartSkipWhitespace(line, id.pos))

PartKeyAt(line, partition, pos) ==
    IF pos > Len(line) THEN partition
    ELSE PartKeyed(line, partition, PartParseIdentifier(line, pos))

parseLine(line, partition) == PartKeyAt(line, partition, PartSkipWhitespace(line, 1))

\* line.find("name") != npos
Contains(line, word) ==
    \E i \in 1..(Len(line) - Len(word) + 1) : SubSeq(line, i, i + Len(word) - 1) = word

\* parseFromStream, "Parse MBR size": the value after size = in the [mbr]
\* section (the cast to uint32_t changes no number below 2^31)
MbrValue(line, mbrSize, pos) ==
    IF pos <= Len(line) THEN PartParseNumber(line, pos).val ELSE mbrSize
MbrEquals(line, mbrSize, pos) ==
    IF pos <= Len(line) /\ line[pos] = "="
    THEN MbrValue(line, mbrSize, PartSkipWhitespace(line, pos + 1))
    ELSE mbrSize
MbrSizeAt(line, mbrSize, pos) ==
    IF pos + 3 <= Len(line) /\ SubSeq(line, pos, pos + 3) = KeySize
    THEN MbrEquals(line, mbrSize, PartSkipWhitespace(line, pos + 4))
    ELSE mbrSize
MbrSizeOf(line, mbrSize) == MbrSizeAt(line, mbrSize, PartSkipWhitespace(line, 1))

\* parseFromStream, the two "Parse partition information" tests in turn: a
\* line is handed to parseLine when the current partition has a name, and
\* then, if the partition has no name (still or again) and the line holds
\* the text "name"
PartNameLine(line, current) ==
    IF current.name = <<>> /\ Contains(line, KeyName) THEN parseLine(line, current)
    ELSE current
PartFieldLine(line, current) ==
    PartNameLine(line, IF current.name # <<>> THEN parseLine(line, current) ELSE current)

\* the state of the getline loop of parseFromStream
PartLoopState(obj, inMbrSection, inPartitionSection, currentPartition) ==
    [obj |-> obj, inMbrSection |-> inMbrSection, inPartitionSection |-> inPartitionSection,
     currentPartition |-> currentPartition]

\* partitions.push_back(currentPartition) if its name is not empty
Flushed(obj, currentPartition) ==
    IF currentPartition.name # <<>>
    THEN [obj EXCEPT !.partitions = Append(@, currentPartition)]
    ELSE obj

\* one trimmed line of the loop
PartLine(s, line) ==
    IF line = <<>> \/ line[1] = ";" \/ (Len(line) >= 2 /\ line[1] = "/" /\ line[2] = "/") THEN s
    ELSE IF line = SectionPartitionStart
    THEN PartLoopState(s.obj, FALSE, TRUE, s.currentPartition)
    ELSE IF line = SectionMbr
    THEN PartLoopState(s.obj, TRUE, FALSE, s.currentPartition)
    ELSE IF line = SectionPartition
    THEN PartLoopState(Flushed(s.obj, s.currentPartition), FALSE, TRUE, Partition)
    ELSE PartLoopState(
            IF s.inMbrSection
            THEN [s.obj EXCEPT !.mbrSize = MbrSizeOf(line, s.obj.mbrSize)]
            ELSE s.obj,
            s.inMbrSection, s.inPartitionSection,
            IF s.inPartitionSection THEN PartFieldLine(line, s.currentPartition)
            ELSE s.currentPartition)

RECURSIVE PartLoop(_, _, _)
PartLoop(lines, i, s) ==
    IF i > Len(lines) THEN s ELSE PartLoop(lines, i + 1, PartLine(s, Trim(lines[i])))

\* "Save the last partition"
PartEnd(s) == IF s.inPartitionSection THEN Flushed(s.obj, s.currentPartition) ELSE s.obj

\* a parse that starts from an empty object
parseFromStreamFresh(obj, lines) ==
    PartEnd(PartLoop(lines, 1, PartLoopState(NewPartition, FALSE, FALSE, Partition)))

\* OpenixPartition::parseFromStream on the object obj: the object after the
\* call (the call returns true)
parseFromStream(obj, lines) ==
    PartEnd(PartLoop(lines, 1, PartLoopState(obj, FALSE, FALSE, Partition)))

(***************************************************************************)
(* OpenixPartition::dumpToJson.  The text is the sequence of its lines.    *)
(***************************************************************************)
JsonOpen == <<"{">>
JsonMbrSize ==
    <<" ", " ", " ", " ", "\"", "m", "b", "r", "_", "s", "i", "z", "e", "\"", ":", " ">>
JsonPartitions ==
    <<" ", " ", " ", " ", "\"", "p", "a", "r", "t", "i", "t", "i", "o", "n", "s", "\"",
      ":", " ", "[">>
JsonObjectOpen == <<" ", " ", " ", " ", " ", " ", " ", " ", "{">>
JsonObjectClose == <<" ", " ", " ", " ", " ", " ", " ", " ", "}">>
JsonArrayClose == <<" ", " ", " ", " ", "]">>
JsonClose == <<"}">>
JsonFieldIndent == <<" ", " ", " ", " ", " ", " ", " ", " ", " ", " ", " ", " ">>
JsonTrue == <<"t", "r", "u", "e">>
JsonFalse == <<"f", "a", "l", "s", "e">>

\* the start of a field line: the indent, the key between quotes, ": "
JsonKey(key) == JsonFieldIndent \o <<"\"">> \o key \o <<"\"", ":", " ">>
\* "key": "text" with the text as it is
JsonStringField(key, value, last) ==
    JsonKey(key) \o <<"\"">> \o value \o <<"\"">> \o (IF last THEN <<>> ELSE <<",">>)
\* "key": number in decimal
JsonNumberField(key, value, last) ==
    JsonKey(key) \o FormatDec(value) \o (IF last THEN <<>> ELSE <<",">>)
\* "key": true or false
JsonBoolField(key, value, last) ==
    JsonKey(key) \o (IF value THEN JsonTrue ELSE JsonFalse) \o (IF last THEN <<>> ELSE <<",">>)

\* the lines of one partition object; the closing brace is followed by a
\* comma unless the partition is the last one
JsonPartition(partition, isLast) ==
    <<JsonObjectOpen,
      JsonStringField(KeyName, partition.name, FALSE),
      JsonNumberField(KeySize, partition.size, FALSE),
      JsonStringField(KeyDownloadfile, partition.downloadfile, FALSE),
      JsonNumberField(KeyUserType, partition.user_type, FALSE),
      JsonBoolField(KeyKeydata, partition.keydata, FALSE),
      JsonBoolField(KeyEncrypt, partition.encrypt, FALSE),
      JsonBoolField(KeyVerify, partition.verify, FALSE),
      JsonBoolField(KeyRo, partition.ro, TRUE),
      JsonObjectClose \o (IF isLast THEN <<>> ELSE <<",">>)>>

RECURSIVE JsonPartitionsFrom(_, _, _)
JsonPartitionsFrom(partitions, i, out) ==
    IF i > Len(partitions) THEN out
    ELSE JsonPartitionsFrom(partitions, i + 1,
                            out \o JsonPartition(partitions[i], i = Len(partitions)))

dumpToJson(obj) ==
    JsonPartitionsFrom(obj.partitions, 1,
                       <<JsonOpen, JsonMbrSize \o FormatDec(obj.mbrSize) \o <<",">>,
                         JsonPartitions>>)
    \o <<JsonArrayClose, JsonClose>>

(***************************************************************************)
(* Texts of sys_partition.fex: sequences of at most MaxPartLines lines.    *)
(***************************************************************************)
MaxPartLines == 4
MaxPartitions == 3
PartLineNameA == <<"n", "a", "m", "e", " ", "=", " ", "a">>
PartLineNameB == <<"n", "a", "m", "e", " ", "=", " ", "b">>
PartLineSize == <<"s", "i", "z", "e", " ", "=", " ", "1", "6">>
PartLineDownloadfile ==
    <<"d", "o", "w", "n", "l", "o", "a", "d", "f", "i", "l", "e", " ", "=", " ", "\"", "q",
      "\\", "\"", "x", "\"">>
PartLinePool ==
    {SectionPartition, SectionMbr, SectionPartitionStart,
     PartLineNameA, PartLineNameB, PartLineSize, PartLineDownloadfile}
PartInputs == UNION {[1..n -> PartLinePool] : n \in 0..MaxPartLines}
PartParsed == [lines \in PartInputs |-> parseFromStream(NewPartition, lines)]

(***************************************************************************)
(* State.                                                                  *)
(*   disk  the file system                                                 *)
(*   img   the OpenixIMGFile object                                        *)
(*   pk    the OpenixPacker object                                         *)
(*   ret   the last call: its name, its argument, the value it returned    *)
(*         (for decryptImage together with the bytes it wrote) and whether *)
(*         it touched memory outside the image buffer; a call that faulted *)
(*         (fault) ends the process                                        *)
(*   cfg   the OpenixCFG object                                            *)
(*   text  the lines of the stream loadFromStream reads                    *)
(*   part  the OpenixPartition object                                      *)
(***************************************************************************)
VARIABLES disk, img, pk, ret, cfg, text, part

vars == <<disk, img, pk, ret, cfg, text, part>>

\* ImageHeader::ImageHeader(): the magic, everything else zero
DefaultImageHeader == IMAGEWTY_MAGIC \o Zeros(SIZEOF_IMAGEHEADER - IMAGEWTY_MAGIC_LEN)

\* the loop of initializeCrypto over twofishKey_, a vector of uint8_t, from
\* the 0-based position i on, computed without the narrowing to uint8_t
RECURSIVE FileTwofishKeyWide(_, _)
FileTwofishKeyWide(key, i) ==
    IF i >= Len(key) THEN key
    ELSE FileTwofishKeyWide([key EXCEPT ![i + 1] = key[i - 1] + key[i]], i + 1)

\* OpenixIMGFile::initializeCrypto, "Initialize TwoFish key": the loop from
\* the 0-based position i on; the sum is narrowed to uint8_t
RECURSIVE FileTwofishKey(_, _)
FileTwofishKey(key, i) ==
    IF i >= Len(key) THEN key
    ELSE FileTwofishKey([key EXCEPT ![i + 1] = (key[i - 1] + key[i]) % 256], i + 1)

\* OpenixPacker::initializeCrypto, the same loop
RECURSIVE PackerTwofishKey(_, _)
PackerTwofishKey(key, i) ==
    IF i >= Len(key) THEN key
    ELSE PackerTwofishKey([key EXCEPT ![i + 1] = (key[i - 1] + key[i]) % 256], i + 1)

\* twofishKey_(32, 0), then twofishKey_[0] = 5 and twofishKey_[1] = 4
TwofishKey0 == [Zeros(32) EXCEPT ![1] = 5, ![2] = 4]

\* OpenixIMGFile::OpenixIMGFile()
NewIMGFile ==
    [encryptionEnabled_ |-> TRUE, imageLoaded_ |-> FALSE, imageSize_ |-> 0,
     imageFilePath_ |-> "", imageData_ |-> <<>>, imageHeader_ |-> DefaultImageHeader,
     isEncrypted_ |-> FALSE, fileList_ |-> <<>>,
     pid_ |-> 0, vid_ |-> 0, hardwareId_ |-> 0, firmwareId_ |-> 0,
     twofishKey_ |-> FileTwofishKey(TwofishKey0, 2)]

\* OpenixPacker::OpenixPacker(); isEncrypted_ has no initialiser
NewPacker(enc) ==
    [encryptionEnabled_ |-> TRUE, outputFormat_ |-> "UNIMG", imageLoaded_ |-> FALSE,
     imageSize_ |-> 0, imageFilePath_ |-> "", imageData_ |-> <<>>,
     imageHeader_ |-> DefaultImageHeader, isEncrypted_ |-> enc,
     twofishKey_ |-> PackerTwofishKey(TwofishKey0, 2)]

Call(op, arg, val, oob) == [op |-> op, arg |-> arg, val |-> val, oob |-> oob, fault |-> FALSE]
Fault(op, arg) == [op |-> op, arg |-> arg, val |-> FALSE, oob |-> TRUE, fault |-> TRUE]
Running == ~ret.fault

\* a freeImage that forgets the path as well
FileFreeImageAll(o) == [NewIMGFile EXCEPT !.encryptionEnabled_ = o.encryptionEnabled_]

\* freeImage
FileFreeImageOf(o) ==
    [o EXCEPT !.imageData_ = <<>>, !.fileList_ = <<>>, !.imageLoaded_ = FALSE,
              !.imageSize_ = 0, !.pid_ = 0, !.vid_ = 0, !.hardwareId_ = 0, !.firmwareId_ = 0]
PackerFreeImageOf(o) ==
    [o EXCEPT !.imageData_ = <<>>, !.imageLoaded_ = FALSE, !.imageSize_ = 0]

\* reloadImage() of either class: nothing with an empty stored path, else
\* freeImage and loadImage of the stored path
ReloadImage(cls, o, d, junk) ==
    IF o.imageFilePath_ = "" THEN LoadResult(o, FALSE, FALSE, FALSE)
    ELSE LoadImage(cls, IF cls = "File" THEN FileFreeImageOf(o) ELSE PackerFreeImageOf(o),
                   o.imageFilePath_, d, junk)

(***************************************************************************)
(* OpenixIMGFile::getFileDataByFilename: the first entry of fileList_      *)
(* whose filename equals the name; originalLength bytes copied from        *)
(* imageData_.data() + offset.                                             *)
(***************************************************************************)
Absent == [found |-> FALSE, index |-> 0, data |-> <<>>, oob |-> FALSE, fault |-> FALSE]

\* the copy of originalLength bytes from imageData_.data() + offset; a copy
\* that reaches past the mapped slack faults
CopyOut(buf, i, offset, originalLength, junk) ==
    LET far == originalLength > 0
               /\ (originalLength > Len(buf) + MappedSlack \/ offset > Len(buf) + MappedSlack)
    IN [found |-> TRUE, index |-> i,
        data |-> IF far THEN <<>> ELSE BytesAt(buf, offset, originalLength, junk),
        oob |-> originalLength > 0 /\ ReadsOutside(buf, offset, originalLength),
        fault |-> far]

FileFirstMatch(list, name) ==
    LET hits == {i \in 1..Len(list) : list[i].filename = name}
    IN IF hits = {} THEN 0 ELSE CHOOSE i \in hits : \A j \in hits : i <= j

FileGetFileDataByFilename(o, name, junk) ==
    IF ~o.imageLoaded_ THEN Absent
    ELSE LET i == FileFirstMatch(o.fileList_, name)
         IN IF i = 0 THEN Absent
            ELSE CopyOut(o.imageData_, i, o.fileList_[i].offset,
                         o.fileList_[i].originalLength, junk)

(***************************************************************************)
(* Operations of OpenixIMGFile.                                            *)
(***************************************************************************)
\* a load that touched memory outside the buffer may fault instead of
\* returning; one that went past the mapped slack does
FileLoadImage(path) ==
    /\ Running
    /\ \E junk \in JunkBytes :
         LET r == LoadImage("File", img, path, Files(disk), junk)
         IN \/ /\ ~r.fault
               /\ img' = r.obj
               /\ ret' = Call("loadImage", path, r.ret, r.oob)
            \/ /\ r.oob
               /\ img' = img
               /\ ret' = Fault("loadImage", path)
    /\ UNCHANGED <<disk, pk, cfg, text, part>>

FileFreeImage ==
    /\ Running
    /\ img' = FileFreeImageOf(img)
    /\ ret' = Call("freeImage", "", TRUE, FALSE)
    /\ UNCHANGED <<disk, pk, cfg, text, part>>

\* the object is left as freeImage and the part of loadImage before the
\* access outside the buffer left it when the reload faults
FileReloadImage ==
    /\ Running
    /\ \E junk \in JunkBytes :
         LET r == ReloadImage("File", img, Files(disk), junk)
         IN \/ /\ ~r.fault
               /\ img' = r.obj
               /\ ret' = Call("reloadImage", img.imageFilePath_, r.ret, r.oob)
            \/ /\ r.oob
               /\ img' = FileFreeImageOf(img)
               /\ ret' = Fault("reloadImage", img.imageFilePath_)
    /\ UNCHANGED <<disk, pk, cfg, text, part>>

FileSetEncryptionEnabled(enabled) ==
    /\ Running
    /\ img' = [img EXCEPT !.encryptionEnabled_ = enabled]
    /\ ret' = Call("setEncryptionEnabled", enabled, TRUE, FALSE)
    /\ UNCHANGED <<disk, pk, cfg, text, part>>

FileGetData(name) ==
    /\ Running
    /\ \E junk \in JunkBytes :
         LET r == FileGetFileDataByFilename(img, name, junk)
         IN \/ /\ ~r.fault
               /\ ret' = Call("getFileDataByFilename", name,
                              [found |-> r.found, index |-> r.index, data |-> r.data],
                              r.oob)
            \/ /\ r.oob
               /\ ret' = Fault("getFileDataByFilename", name)
    /\ UNCHANGED <<disk, img, pk, cfg, text, part>>

(***************************************************************************)
(* OpenixPacker::getFileDataByFilename: the file headers are walked in the *)
(* buffer, numFiles taken from the imageHeader_ copy; strcmp compares the  *)
(* stored filename, read as a C string, with the name asked for.           *)
(***************************************************************************)
RECURSIVE PackerScan(_, _, _, _, _, _, _)
PackerScan(buf, v3, numFiles, name, junk, i, oob) ==
    IF i >= numFiles THEN [Absent EXCEPT !.oob = oob]
    ELSE IF FileHeaderAt(i) > Len(buf) + MappedSlack
    THEN [Absent EXCEPT !.oob = TRUE, !.fault = TRUE]
    ELSE LET base == FileHeaderAt(i)
             outside == ReadsOutside(buf, base, IMAGEWTY_FILEHDR_LEN)
         IN IF CStrFrom(buf, AddSat(base, FilenameOff(v3)), junk, JunkRun) = name
            THEN LET r == CopyOut(buf, i + 1, U32At(buf, AddSat(base, OffsetOff(v3)), junk),
                                  U32At(buf, AddSat(base, OriginalLengthOff(v3)), junk), junk)
                 IN [r EXCEPT !.oob = r.oob \/ oob \/ outside]
            ELSE PackerScan(buf, v3, numFiles, name, junk, i + 1, oob \/ outside)

PackerGetFileDataByFilename(o, name, junk) ==
    IF ~o.imageLoaded_ THEN Absent
    ELSE PackerScan(o.imageData_, IsV3(o.imageHeader_), NumFiles(o.imageHeader_), name, junk,
                    0, FALSE)

(***************************************************************************)
(* OpenixPacker::decryptImage.                                             *)
(***************************************************************************)
\* std::vector<uint8_t> v(n); file.seekg(pos); file.read(v.data(), n): the n
\* bytes of the file from pos, zero where the file has ended
ReadAt(bytes, pos, n) ==
    LET have == IF pos >= Len(bytes) THEN 0
                ELSE IF n > Len(bytes) - pos THEN Len(bytes) - pos ELSE n
    IN SubSeq(bytes, pos + 1, pos + have) \o Zeros(n - have)

\* memcpy(buf.data() + off, src.data(), src.size()); the part that falls
\* outside the buffer is not part of the vector
Overwrite(buf, off, src) ==
    LET room == IF off >= Len(buf) THEN 0 ELSE Len(buf) - off
        n == IF Len(src) > room THEN room ELSE Len(src)
    IN IF n = 0 THEN buf
       ELSE SubSeq(buf, 1, off) \o SubSeq(src, 1, n) \o SubSeq(buf, off + n + 1, Len(buf))

\* the header pass run on the copy of the buffer, nothing re-read
RedecryptHeaderStale(copy, src, junk) ==
    PackerRc6DecryptInPlace(TRUE, copy, 0, IMAGEWTY_FILEHDR_LEN, headerContext_, junk)
\* the header re-read from the source and decrypted in the copy
RedecryptHeader(copy, src, junk) ==
    PackerRc6DecryptInPlace(TRUE, Overwrite(copy, 0, ReadAt(src, 0, IMAGEWTY_FILEHDR_LEN)), 0,
                            IMAGEWTY_FILEHDR_LEN, headerContext_, junk)

\* the file headers re-read and decrypted
RedecryptFileHeaders(copy, src, n2, junk) ==
    PackerRc6DecryptInPlace(TRUE, Overwrite(copy, IMAGEWTY_FILEHDR_LEN,
                                            ReadAt(src, IMAGEWTY_FILEHDR_LEN, n2)),
                            IMAGEWTY_FILEHDR_LEN, n2, fileHeadersContext_, junk)

\* the file contents re-read and decrypted file by file
RedecryptContents(copy, src, start, n3, numFiles, v3, junk) ==
    ContentLoop("Packer", TRUE, TRUE, Overwrite(copy, start, ReadAt(src, start, n3)),
                numFiles, v3, junk, 0, start)

DecryptResult(value, buf, oob, fault) == [ret |-> value, buf |-> buf, oob |-> oob, fault |-> fault]

\* from "Re-encrypt file headers for output" on; r1 is the header pass
RedecryptRest(o, src, r1, junk) ==
    LET hdr == BytesAt(r1.buf, 0, SIZEOF_IMAGEHEADER, junk)
        numFiles == NumFiles(hdr)
        n2 == MulHdrLen(numFiles)
        start == AddSat(IMAGEWTY_FILEHDR_LEN, n2)
        short == Len(o.imageData_) < IMAGEWTY_FILEHDR_LEN
    IN IF n2 > Len(o.imageData_) + MappedSlack
       \* the table copy lands far outside the buffer
       THEN DecryptResult(FALSE, r1.buf, TRUE, TRUE)
       ELSE IF o.imageSize_ < start
       \* the size of encryptedFileContents wraps around: the vector throws
       THEN DecryptResult(FALSE, r1.buf,
                          short \/ r1.oob \/ (n2 > 0 /\ ReadsOutside(o.imageData_, IMAGEWTY_FILEHDR_LEN, n2)),
                          FALSE)
       ELSE LET r2 == RedecryptFileHeaders(r1.buf, src, n2, junk)
                r3 == RedecryptContents(r2.buf, src, start, o.imageSize_ - start, numFiles,
                                        IsV3(hdr), junk)
            IN DecryptResult(TRUE, r3.buf,
                             short \/ r1.oob \/ r2.oob \/ r3.oob
                             \/ ReadsOutside(o.imageData_, 0, o.imageSize_),
                             FALSE)

\* a source that cannot be opened read as an empty file
RedecryptUnchecked(o, f, junk) ==
    IF ~(o.isEncrypted_ /\ o.encryptionEnabled_)
    THEN DecryptResult(TRUE, o.imageData_, FALSE, FALSE)
    ELSE RedecryptRest(o, f.bytes, RedecryptHeader(o.imageData_, f.bytes, junk), junk)
\* the copy decryptImage prepares for writing
Redecrypt(o, f, junk) ==
    IF ~(o.isEncrypted_ /\ o.encryptionEnabled_)
    THEN DecryptResult(TRUE, o.imageData_, FALSE, FALSE)
    ELSE IF f.kind # "file" \/ ~f.readable
    THEN DecryptResult(FALSE, o.imageData_, FALSE, FALSE)
    ELSE RedecryptRest(o, f.bytes, RedecryptHeader(o.imageData_, f.bytes, junk), junk)

\* paths decryptImage is asked to write to; nothing can be created under ro/
OutPaths == {"out.img", "ro/out.img"}
Writable(p) == p = "out.img"

\* the result of decryptImage: the value returned, whether a file was
\* written and its bytes; r is the prepared copy
Written(o, outPath, r, junk) ==
    IF ~r.ret \/ ~Writable(outPath)
    THEN [ret |-> FALSE, wrote |-> FALSE, bytes |-> <<>>, oob |-> r.oob, fault |-> r.fault]
    ELSE [ret |-> TRUE, wrote |-> TRUE, bytes |-> BytesAt(r.buf, 0, o.imageSize_, junk),
          oob |-> r.oob \/ ReadsOutside(r.buf, 0, o.imageSize_), fault |-> r.fault]

DecryptImage(o, d, outPath, junk) ==
    IF ~o.imageLoaded_
    THEN [ret |-> FALSE, wrote |-> FALSE, bytes |-> <<>>, oob |-> FALSE, fault |-> FALSE]
    ELSE Written(o, outPath, Redecrypt(o, d[o.imageFilePath_], junk), junk)

InitFile ==
    /\ disk = Disk0
    /\ img = NewIMGFile
    /\ pk = NewPacker(FALSE)
    /\ cfg = NewCFG
    /\ text = <<>>
    /\ part = NewPartition
    /\ ret = Call("new", "", TRUE, FALSE)

NextFile ==
    \/ \E path \in Paths : FileLoadImage(path)
    \/ FileFreeImage
    \/ FileReloadImage
    \/ \E enabled \in BOOLEAN : FileSetEncryptionEnabled(enabled)
    \/ \E name \in Names : FileGetData(name)

SpecFile == InitFile /\ [][NextFile]_vars

\* the same operations over a file system whose tiled.img holds one of the
\* multi-file encrypted images
InitTiled ==
    /\ \E t \in TileNames : disk = [Disk0 EXCEPT !["tiled.img"] = t]
    /\ img = NewIMGFile
    /\ pk = NewPacker(FALSE)
    /\ cfg = NewCFG
    /\ text = <<>>
    /\ part = NewPartition
    /\ ret = Call("new", "", TRUE, FALSE)

SpecTiled == InitTiled /\ [][NextFile]_vars

(***************************************************************************)
(* Operations of OpenixPacker.                                             *)
(***************************************************************************)
PackerLoadImage(path) ==
    /\ Running
    /\ \E junk \in JunkBytes :
         LET r == LoadImage("Packer", pk, path, Files(disk), junk)
         IN \/ /\ ~r.fault
               /\ pk' = r.obj
               /\ ret' = Call("loadImage", path, r.ret, r.oob)
            \/ /\ r.oob
               /\ pk' = pk
               /\ ret' = Fault("loadImage", path)
    /\ UNCHANGED <<disk, img, cfg, text, part>>

PackerFreeImage ==
    /\ Running
    /\ pk' = PackerFreeImageOf(pk)
    /\ ret' = Call("freeImage", "", TRUE, FALSE)
    /\ UNCHANGED <<disk, img, cfg, text, part>>

PackerReloadImage ==
    /\ Running
    /\ \E junk \in JunkBytes :
         LET r == ReloadImage("Packer", pk, Files(disk), junk)
         IN \/ /\ ~r.fault
               /\ pk' = r.obj
               /\ ret' = Call("reloadImage", pk.imageFilePath_, r.ret, r.oob)
            \/ /\ r.oob
               /\ pk' = PackerFreeImageOf(pk)
               /\ ret' = Fault("reloadImage", pk.imageFilePath_)
    /\ UNCHANGED <<disk, img, cfg, text, part>>

PackerSetEncryptionEnabled(enabled) ==
    /\ Running
    /\ pk' = [pk EXCEPT !.encryptionEnabled_ = enabled]
    /\ ret' = Call("setEncryptionEnabled", enabled, TRUE, FALSE)
    /\ UNCHANGED <<disk, img, cfg, text, part>>

PackerGetData(name) ==
    /\ Running
    /\ \E junk \in JunkBytes :
         LET r == PackerGetFileDataByFilename(pk, name, junk)
         IN \/ /\ ~r.fault
               /\ ret' = Call("getFileDataByFilename", name,
                              [found |-> r.found, index |-> r.index, data |-> r.data],
                              r.oob)
            \/ /\ r.oob
               /\ ret' = Fault("getFileDataByFilename", name)
    /\ UNCHANGED <<disk, img, pk, cfg, text, part>>

\* decryptImage is const: the object stays as it is
PackerDecryptImage(outPath) ==
    /\ Running
    /\ \E junk \in JunkBytes :
         LET r == DecryptImage(pk, Files(disk), outPath, junk)
         IN \/ /\ ~r.fault
               /\ ret' = Call("decryptImage", outPath,
                              [ret |-> r.ret, wrote |-> r.wrote, bytes |-> r.bytes], r.oob)
            \/ /\ r.oob
               /\ ret' = Fault("decryptImage", outPath)
    /\ UNCHANGED <<disk, img, pk, cfg, text, part>>

(***************************************************************************)
(* The environment: between two calls an image file is deleted, loses its  *)
(* read permission, or is rewritten with other bytes of the same length.   *)
(* One such change happens in a run.                                       *)
(***************************************************************************)
Volatile == {"v1.img", "v3e.img"}

RemoveFile(path) ==
    /\ Running
    /\ disk = Disk0
    /\ disk' = [disk EXCEPT ![path] = "removed"]
    /\ UNCHANGED <<img, pk, ret, cfg, text, part>>

RevokeRead(path) ==
    /\ Running
    /\ disk = Disk0
    /\ disk' = [disk EXCEPT ![path] = "unreadable"]
    /\ UNCHANGED <<img, pk, ret, cfg, text, part>>

RewriteFile(path) ==
    /\ Running
    /\ disk = Disk0
    /\ Rewritten(path) # Original(path)
    /\ disk' = [disk EXCEPT ![path] = "rewritten"]
    /\ UNCHANGED <<img, pk, ret, cfg, text, part>>

\* isEncrypted_ of a new OpenixPacker is indeterminate
InitPacker ==
    /\ disk = Disk0
    /\ img = NewIMGFile
    /\ \E enc \in BOOLEAN : pk = NewPacker(enc)
    /\ cfg = NewCFG
    /\ text = <<>>
    /\ part = NewPartition
    /\ ret = Call("new", "", TRUE, FALSE)

NextPacker ==
    \/ \E path \in Paths : PackerLoadImage(path)
    \/ PackerFreeImage
    \/ PackerReloadImage
    \/ \E enabled \in BOOLEAN : PackerSetEncryptionEnabled(enabled)
    \/ \E name \in Names : PackerGetData(name)
    \/ \E outPath \in OutPaths : PackerDecryptImage(outPath)
    \/ \E path \in Volatile : RemoveFile(path)
    \/ \E path \in Volatile : RevokeRead(path)
    \/ \E path \in Volatile : RewriteFile(path)

SpecPacker == InitPacker /\ [][NextPacker]_vars

(***************************************************************************)
(* The OpenixCFG object under calls of its public interface.               *)
(***************************************************************************)
\* the call as the caller sees it: the value returned or the exception, or
\* the end of the process
StreamCall(r) ==
    IF r.fault THEN Fault("loadFromStream", "")
    ELSE Call("loadFromStream", "", [returned |-> r.returned, threw |-> r.threw], FALSE)

CfgLoaded(r) ==
    /\ cfg' = r.doc
    /\ ret' = StreamCall(r)

CfgLoadFromStream ==
    /\ Running
    /\ CfgLoaded(CfgParsed[text])
    /\ UNCHANGED <<disk, img, pk, text, part>>

CfgAddGroup(group) ==
    /\ Running
    /\ Len(cfg.headGroup_) < MaxGroups
    /\ cfg' = addGroup(cfg, group)
    /\ ret' = Call("addGroup", group.name, TRUE, FALSE)
    /\ UNCHANGED <<disk, img, pk, text, part>>

CfgFindGroup(name) ==
    /\ Running
    /\ ret' = Call("findGroup", name, findGroup(cfg, name), FALSE)
    /\ UNCHANGED <<disk, img, pk, cfg, text, part>>

CfgFindVariable(name) ==
    /\ Running
    /\ ret' = Call("findVariable", name, findVariable(cfg, name), FALSE)
    /\ UNCHANGED <<disk, img, pk, cfg, text, part>>

CfgFindVariableInGroup(name, groupName) ==
    /\ Running
    /\ ret' = Call("findVariableInGroup", <<name, groupName>>,
                   findVariableInGroup(cfg, name, groupName), FALSE)
    /\ UNCHANGED <<disk, img, pk, cfg, text, part>>

InitCFG ==
    /\ disk = Disk0
    /\ img = NewIMGFile
    /\ pk = NewPacker(FALSE)
    /\ cfg = NewCFG
    /\ text \in Inputs
    /\ part = NewPartition
    /\ ret = Call("new", "", TRUE, FALSE)

NextCFG ==
    \/ CfgLoadFromStream
    \/ \E group \in ApiGroups : CfgAddGroup(group)
    \/ \E name \in GroupNames : CfgFindGroup(name)
    \/ \E name \in VarNames : CfgFindVariable(name)
    \/ \E name \in VarNames, groupName \in GroupNames : CfgFindVariableInGroup(name, groupName)

SpecCFG == InitCFG /\ [][NextCFG]_vars

(***************************************************************************)
(* OpenixPacker::unpackImage.  The bytes of the image become the text of   *)
(* the document: CharOf gives the character of a byte, those outside the   *)
(* printable ASCII range named by their code.                              *)
(***************************************************************************)
CharTable ==
    <<"x00", "x01", "x02", "x03", "x04", "x05", "x06", "x07", "x08", "x09", "x0A", "x0B",
      "x0C", "x0D", "x0E", "x0F", "x10", "x11", "x12", "x13", "x14", "x15", "x16", "x17",
      "x18", "x19", "x1A", "x1B", "x1C", "x1D", "x1E", "x1F", " ", "!", "\"", "#", "$",
      "%", "&", "'", "(", ")", "*", "+", ",", "-", ".", "/", "0", "1", "2", "3", "4", "5",
      "6", "7", "8", "9", ":", ";", "<", "=", ">", "?", "@", "A", "B", "C", "D", "E", "F",
      "G", "H", "I", "J", "K", "L", "M", "N", "O", "P", "Q", "R", "S", "T", "U", "V", "W",
      "X", "Y", "Z", "[", "\\", "]", "^", "_", "x60", "a", "b", "c", "d", "e", "f", "g", "h",
      "i", "j", "k", "l", "m", "n", "o", "p", "q", "r", "s", "t", "u", "v", "w", "x", "y",
      "z", "{", "|", "}", "~", "x7F", "x80", "x81", "x82", "x83", "x84", "x85", "x86",
      "x87", "x88", "x89", "x8A", "x8B", "x8C", "x8D", "x8E", "x8F", "x90", "x91", "x92",
      "x93", "x94", "x95", "x96", "x97", "x98", "x99", "x9A", "x9B", "x9C", "x9D", "x9E",
      "x9F", "xA0", "xA1", "xA2", "xA3", "xA4", "xA5", "xA6", "xA7", "xA8", "xA9", "xAA",
      "xAB", "xAC", "xAD", "xAE", "xAF", "xB0", "xB1", "xB2", "xB3", "xB4", "xB5", "xB6",
      "xB7", "xB8", "xB9", "xBA", "xBB", "xBC", "xBD", "xBE", "xBF", "xC0", "xC1", "xC2",
      "xC3", "xC4", "xC5", "xC6", "xC7", "xC8", "xC9", "xCA", "xCB", "xCC", "xCD", "xCE",
      "xCF", "xD0", "xD1", "xD2", "xD3", "xD4", "xD5", "xD6", "xD7", "xD8", "xD9", "xDA",
      "xDB", "xDC", "xDD", "xDE", "xDF", "xE0", "xE1", "xE2", "xE3", "xE4", "xE5", "xE6",
      "xE7", "xE8", "xE9", "xEA", "xEB", "xEC", "xED", "xEE", "xEF", "xF0", "xF1", "xF2",
      "xF3", "xF4", "xF5", "xF6", "xF7", "xF8", "xF9", "xFA", "xFB", "xFC", "xFD", "xFE",
      "xFF">>
CharOf(b) == CharTable[b + 1]
\* std::string(data, n), and std::string(const char *)
CharsOf(bytes) == [k \in 1..Len(bytes) |-> CharOf(bytes[k])]
\* the characters of a path
PathChars(path) ==
    CASE path = "v1.img" -> <<"v", "1", ".", "i", "m", "g">>
      [] path = "v3e.img" -> <<"v", "3", "e", ".", "i", "m", "g">>
      [] path = "bad.img" -> <<"b", "a", "d", ".", "i", "m", "g">>
      [] path = "short.img" -> <<"s", "h", "o", "r", "t", ".", "i", "m", "g">>
      [] path = "over.img" -> <<"o", "v", "e", "r", ".", "i", "m", "g">>
      [] path = "empty.img" -> <<"e", "m", "p", "t", "y", ".", "i", "m", "g">>
      [] path = "locked.img" -> <<"l", "o", "c", "k", "e", "d", ".", "i", "m", "g">>
      [] path = "gone.img" -> <<"g", "o", "n", "e", ".", "i", "m", "g">>
      [] path = "tiled.img" -> <<"t", "i", "l", "e", "d", ".", "i", "m", "g">>
      [] path = "dir" -> <<"d", "i", "r">>
      [] OTHER -> <<>>

DIR_DEF == <<"D", "I", "R", "_", "D", "E", "F">>
FILELIST == <<"F", "I", "L", "E", "L", "I", "S", "T">>
INPUT_DIR == <<"I", "N", "P", "U", "T", "_", "D", "I", "R">>
ParentDir == <<".", ".", "/">>
VarFilename == <<"f", "i", "l", "e", "n", "a", "m", "e">>
VarMaintype == <<"m", "a", "i", "n", "t", "y", "p", "e">>
VarSubtype == <<"s", "u", "b", "t", "y", "p", "e">>
VarVersion == <<"v", "e", "r", "s", "i", "o", "n">>
VarPid == <<"p", "i", "d">>
VarVid == <<"v", "i", "d">>
VarHardwareid == <<"h", "a", "r", "d", "w", "a", "r", "e", "i", "d">>
VarFirmwareid == <<"f", "i", "r", "m", "w", "a", "r", "e", "i", "d">>
VarImagename == <<"i", "m", "a", "g", "e", "n", "a", "m", "e">>
VarFilelist == <<"f", "i", "l", "e", "l", "i", "s", "t">>
VarEncrypt == <<"e", "n", "c", "r", "y", "p", "t">>
CommentRule ==
    <<";", "/", "*", "*", "*", "*", "*", "*", "*", "*", "*", "*", "*", "*", "*", "*", "*",
      "*", "*", "*", "*", "*", "*", "*", "*", "*", "*", "*", "*", "*", "*", "*", "*", "*",
      "*", "*", "*", "*", "*", "*", "*", "*", "*", "*", "*", "*", "*", "*", "*", "*", "*",
      "*", "*", "*", "*", "*", "*", "*", "*", "*", "*", "*", "*", "*", "*", "*", "*", "*",
      "*", "*", "*", "*", "*", "*", "*", "*", "/">>
TimeStr ==
    <<"2", "0", "2", "4", "-", "0", "1", "-", "0", "1", " ", "0", "0", ":", "0", "0", ":",
      "0", "0">>
GeneratedBy ==
    <<";", " ", "g", "e", "n", "e", "r", "a", "t", "e", "d", " ", "b", "y", " ", "O", "p",
      "e", "n", "i", "x", "I", "M", "G">>

\* OutputFormat
OutputFormats == {"UNIMG", "IMGREPACKER"}

\* OpenixPacker::setOutputFormat
setOutputFormat(o, format) == [o EXCEPT !.outputFormat_ = format]

\* offsets of maintype and subtype inside a file header
MaintypeOff == 8
SubtypeOff == 16
TotalHeaderSizeOff == 4

\* "Create DIR_DEF group"
UnpackDirDef ==
    addVariable(Group(DIR_DEF), [Variable(INPUT_DIR, "STRING") EXCEPT !.str = ParentDir])

\* the entry of a file as one string variable instead of a list
UnpackListItemFlat(contFilename, maintype, subtype) ==
    [Variable(VarFilename, "STRING") EXCEPT !.str = contFilename]

\* "Create list item for FILELIST": an anonymous list with the three
\* strings filename, maintype, subtype
UnpackListItem(contFilename, maintype, subtype) ==
    [Variable(<<>>, "LIST_ITEM") EXCEPT
        !.items = <<[Variable(VarFilename, "STRING") EXCEPT !.str = contFilename],
                    [Variable(VarMaintype, "STRING") EXCEPT !.str = maintype],
                    [Variable(VarSubtype, "STRING") EXCEPT !.str = subtype]>>]

\* contFilename: maintype_subtype for UNIMG; for IMGREPACKER the stored
\* filename without a leading slash
ContFilename(format, filename, maintype, subtype) ==
    IF format = "UNIMG" THEN maintype \o <<"_">> \o subtype
    ELSE IF filename # <<>> /\ filename[1] = "/" THEN Tail(filename)
    ELSE filename

\* what the loop does for file i: the header file (UNIMG only) and the
\* content file are written when their ofstream opens, the paths in
\* unwritable being those that do not open; nothing is returned or
\* remembered when an open fails.  The reads follow the header fields,
\* outside the buffer too.
UnpackWrite(kind, i, unwritable, copy) ==
    IF <<i, kind>> \in unwritable THEN [written |-> FALSE, bytes |-> <<>>]
    ELSE [written |-> TRUE, bytes |-> copy.data]
UnpackFile(o, i, base, v3, junk, unwritable) ==
    LET buf == o.imageData_
        hdr == CopyOut(buf, i, base, U32At(buf, AddSat(base, TotalHeaderSizeOff), junk), junk)
        cont == CopyOut(buf, i, U32At(buf, AddSat(base, OffsetOff(v3)), junk),
                        U32At(buf, AddSat(base, OriginalLengthOff(v3)), junk), junk)
        hdrOpens == o.outputFormat_ = "UNIMG" /\ <<i, "hdr">> \notin unwritable
        contOpens == <<i, "cont">> \notin unwritable
    IN [item |-> UnpackListItem(
                    ContFilename(o.outputFormat_,
                                 CharsOf(CStrFrom(buf, AddSat(base, FilenameOff(v3)), junk,
                                                   JunkRun)),
                                 CharsOf(BytesAt(buf, AddSat(base, MaintypeOff),
                                                  IMAGEWTY_FHDR_MAINTYPE_LEN, junk)),
                                 CharsOf(BytesAt(buf, AddSat(base, SubtypeOff),
                                                  IMAGEWTY_FHDR_SUBTYPE_LEN, junk))),
                    CharsOf(BytesAt(buf, AddSat(base, MaintypeOff),
                                     IMAGEWTY_FHDR_MAINTYPE_LEN, junk)),
                    CharsOf(BytesAt(buf, AddSat(base, SubtypeOff),
                                     IMAGEWTY_FHDR_SUBTYPE_LEN, junk))),
        header |-> IF o.outputFormat_ = "UNIMG" THEN UnpackWrite("hdr", i, unwritable, hdr)
                   ELSE [written |-> FALSE, bytes |-> <<>>],
        content |-> UnpackWrite("cont", i, unwritable, cont),
        oob |-> \/ ReadsOutside(buf, base, IMAGEWTY_FILEHDR_LEN)
                \/ (hdrOpens /\ hdr.oob)
                \/ (contOpens /\ cont.oob),
        fault |-> (hdrOpens /\ hdr.fault) \/ (contOpens /\ cont.fault)]

\* "Process each file and add to FILELIST group": the loop from file i on;
\* a file header that lies past the mapped slack faults
UnpackLoopState(group, files, oob, fault) ==
    [group |-> group, files |-> files, oob |-> oob, fault |-> fault]
UnpackNext(s, f) ==
    UnpackLoopState(addVariable(s.group, f.item),
                    Append(s.files, [header |-> f.header, content |-> f.content]),
                    s.oob \/ f.oob, f.fault)
RECURSIVE UnpackFiles(_, _, _, _, _, _, _)
UnpackFiles(o, v3, numFiles, junk, unwritable, i, s) ==
    IF i >= numFiles \/ s.fault THEN s
    ELSE IF FileHeaderAt(i) > Len(o.imageData_) + MappedSlack
    THEN UnpackLoopState(s.group, s.files, TRUE, TRUE)
    ELSE UnpackFiles(o, v3, numFiles, junk, unwritable, i + 1,
                     UnpackNext(s, UnpackFile(o, i, FileHeaderAt(i), v3, junk, unwritable)))

\* "Create IMAGE_CFG group"
UnpackNumber(name, value) == [Variable(name, "NUMBER") EXCEPT !.num = value]
UnpackReference(name, value) == [Variable(name, "REFERENCE") EXCEPT !.str = value]
\* imagename as a Reference to FILELIST
UnpackImagenameFilelist(o) == UnpackReference(VarImagename, FILELIST)
\* imagenameVar->setReference(imageFilePath_)
UnpackImagename(o) == UnpackReference(VarImagename, PathChars(o.imageFilePath_))
UnpackFilelist == UnpackReference(VarFilelist, FILELIST)
UnpackImageCfg(o, v3) ==
    LET hdr == o.imageHeader_
        vars5 == <<UnpackNumber(VarVersion, version(hdr)),
                   UnpackNumber(VarPid, IF v3 THEN v3_pid(hdr) ELSE v1_pid(hdr)),
                   UnpackNumber(VarVid, IF v3 THEN v3_vid(hdr) ELSE v1_vid(hdr)),
                   UnpackNumber(VarHardwareid,
                                IF v3 THEN v3_hardware_id(hdr) ELSE v1_hardware_id(hdr)),
                   UnpackNumber(VarFirmwareid,
                                IF v3 THEN v3_firmware_id(hdr) ELSE v1_firmware_id(hdr))>>
    IN [Group(IMAGE_CFG) EXCEPT
           !.variables = vars5 \o <<UnpackImagename(o), UnpackFilelist,
                                    UnpackReference(VarEncrypt,
                                                    IF o.isEncrypted_ THEN <<"1">>
                                                    ELSE <<"0">>)>>]

\* "Add groups to OpenixCFG instance using the addGroup method"
UnpackDocument(o, v3, fileListGroup) ==
    addGroup(addGroup(addGroup(NewCFG, UnpackDirDef), fileListGroup), UnpackImageCfg(o, v3))

\* "Write header information to config file" and the configuration content;
\* the clock reads TimeStr
UnpackConfig(o, doc) ==
    <<CommentRule, <<";", " ">> \o TimeStr, GeneratedBy,
      <<";", " ">> \o PathChars(o.imageFilePath_), CommentRule>> \o dumpToString(doc)

\* the directories unpackImage is asked to write into; the second cannot be
\* created
OutDirs == {"out", "ro/out"}
Creatable(outputDir) == outputDir = "out"
\* the files of the output directory whose ofstream may fail to open: the
\* content file of the first file, the header file of the second
Unwritables == SUBSET {<<0, "cont">>, <<1, "hdr">>}

\* what unpackImage gives: the value returned, the document built, per file
\* what was written, and the lines of image.cfg
Unpacked(returned, doc, files, config, oob, fault) ==
    [ret |-> returned, doc |-> doc, files |-> files, config |-> config,
     oob |-> oob, fault |-> fault]
UnpackEnd(o, v3, s, configOpens) ==
    IF s.fault THEN Unpacked(FALSE, NewCFG, s.files, <<>>, TRUE, TRUE)
    ELSE IF ~configOpens
    THEN Unpacked(FALSE, UnpackDocument(o, v3, s.group), s.files, <<>>, s.oob, FALSE)
    ELSE Unpacked(TRUE, UnpackDocument(o, v3, s.group), s.files,
                  UnpackConfig(o, UnpackDocument(o, v3, s.group)), s.oob, FALSE)
unpackImage(o, outputDir, junk, unwritable, configOpens) ==
    IF ~o.imageLoaded_ \/ ~Creatable(outputDir)
    THEN Unpacked(FALSE, NewCFG, <<>>, <<>>, FALSE, FALSE)
    ELSE UnpackEnd(o, IsV3(o.imageHeader_),
                   UnpackFiles(o, IsV3(o.imageHeader_), NumFiles(o.imageHeader_), junk,
                               unwritable, 0,
                               UnpackLoopState(Group(FILELIST), <<>>, FALSE, FALSE)),
                   configOpens)

PackerSetOutputFormat(format) ==
    /\ Running
    /\ pk' = setOutputFormat(pk, format)
    /\ ret' = Call("setOutputFormat", format, TRUE, FALSE)
    /\ UNCHANGED <<disk, img, cfg, text, part>>

\* unpackImage is const: the object stays as it is
PackerUnpackImage(outputDir) ==
    /\ Running
    /\ \E junk \in JunkBytes, unwritable \in Unwritables, configOpens \in BOOLEAN :
         LET r == unpackImage(pk, outputDir, junk, unwritable, configOpens)
         IN \/ /\ ~r.fault
               /\ ret' = Call("unpackImage", outputDir,
                              [ret |-> r.ret, doc |-> r.doc, files |-> r.files,
                               config |-> r.config], r.oob)
            \/ /\ r.oob
               /\ ret' = Fault("unpackImage", outputDir)
    /\ UNCHANGED <<disk, img, pk, cfg, text, part>>

NextUnpack ==
    \/ \E path \in Paths : PackerLoadImage(path)
    \/ \E format \in OutputFormats : PackerSetOutputFormat(format)
    \/ \E outputDir \in OutDirs : PackerUnpackImage(outputDir)

SpecUnpack == InitPacker /\ [][NextUnpack]_vars

(***************************************************************************)
(* The command line front-end (src/app/OpenixIMG.cpp).  args is argv       *)
(* without the program name, each argument a sequence of characters; the   *)
(* calls into OpenixPacker and OpenixPartition give what env says.         *)
(***************************************************************************)
LowerSeq ==
    <<"a", "b", "c", "d", "e", "f", "g", "h", "i", "j", "k", "l", "m", "n", "o", "p", "q", "r",
      "s", "t", "u", "v", "w", "x", "y", "z">>
UpperSeq ==
    <<"A", "B", "C", "D", "E", "F", "G", "H", "I", "J", "K", "L", "M", "N", "O", "P", "Q", "R",
      "S", "T", "U", "V", "W", "X", "Y", "Z">>
\* std::tolower in the "C" locale
tolower(c) ==
    IF c \in Upper THEN LowerSeq[CHOOSE k \in 1..26 : UpperSeq[k] = c] ELSE c
ToLower(s) == [k \in 1..Len(s) |-> tolower(s[k])]

OpPack == <<"p", "a", "c", "k">>
OpDecrypt == <<"d", "e", "c", "r", "y", "p", "t">>
OpUnpack == <<"u", "n", "p", "a", "c", "k">>
OpPartition == <<"p", "a", "r", "t", "i", "t", "i", "o", "n">>
OptInput == <<"-", "i">>
OptOutput == <<"-", "o">>
OptV == <<"-", "v">>
OptVerbose == <<"-", "-", "v", "e", "r", "b", "o", "s", "e">>
OptNoEncrypt == <<"-", "-", "n", "o", "-", "e", "n", "c", "r", "y", "p", "t">>
OptFormat == <<"-", "-", "f", "o", "r", "m", "a", "t">>
OptHelp == <<"-", "-", "h", "e", "l", "p">>
OptH == <<"-", "h">>
ArgUnimg == <<"u", "n", "i", "m", "g">>
ArgImgrepacker == <<"i", "m", "g", "r", "e", "p", "a", "c", "k", "e", "r">>
ArgUnpackUpper == <<"U", "N", "P", "A", "C", "K">>
ArgBogus == <<"b", "o", "g", "u", "s">>
ArgImage == <<"f", "w", ".", "i", "m", "g">>
ArgOut == <<"o", "u", "t">>

\* the state of the for loop of parseArguments: i is the 1-based position
\* in args of the argument to look at next, help whether the loop returned
\* false at --help or -h
ArgState(i, input, output, verbose, noEncrypt, outputFormat, help) ==
    [i |-> i, input |-> input, output |-> output, verbose |-> verbose,
     noEncrypt |-> noEncrypt, outputFormat |-> outputFormat, help |-> help]

\* if (formatArg == "unimg") ... else if (formatArg == "imgrepacker") ...
\* else a warning: the format stays what it was
FormatAfter(outputFormat, formatArg) ==
    IF formatArg = ArgUnimg THEN "UNIMG"
    ELSE IF formatArg = ArgImgrepacker THEN "IMGREPACKER"
    ELSE outputFormat

\* one iteration of the loop, the ++i of the for statement included
ArgStep(args, s) ==
    IF args[s.i] = OptInput /\ s.i + 1 <= Len(args)
    THEN [s EXCEPT !.i = s.i + 2, !.input = args[s.i + 1]]
    ELSE IF args[s.i] = OptOutput /\ s.i + 1 <= Len(args)
    THEN [s EXCEPT !.i = s.i + 2, !.output = args[s.i + 1]]
    ELSE IF args[s.i] \in {OptV, OptVerbose}
    THEN [s EXCEPT !.i = s.i + 1, !.verbose = TRUE]
    ELSE IF args[s.i] = OptNoEncrypt
    THEN [s EXCEPT !.i = s.i + 1, !.noEncrypt = TRUE]
    ELSE IF args[s.i] = OptFormat /\ s.i + 1 <= Len(args)
    THEN [s EXCEPT !.i = s.i + 2, !.outputFormat = FormatAfter(@, args[s.i + 1])]
    ELSE IF args[s.i] \in {OptHelp, OptH}
    THEN [s EXCEPT !.help = TRUE]
    ELSE [s EXCEPT !.i = s.i + 1]

RECURSIVE ArgLoop(_, _)
ArgLoop(args, s) ==
    IF s.i > Len(args) \/ s.help THEN s ELSE ArgLoop(args, ArgStep(args, s))

\* parseArguments: the value returned and what the reference parameters hold
Arguments(ok, operation, s) ==
    [ok |-> ok, operation |-> operation, input |-> s.input, output |-> s.output,
     verbose |-> s.verbose, noEncrypt |-> s.noEncrypt, outputFormat |-> s.outputFormat]
ArgsEnd(operation, s) == Arguments(~s.help /\ s.input # <<>>, operation, s)
\* the variables of main before the call
ArgInit == ArgState(2, <<>>, <<>>, FALSE, FALSE, "UNIMG", FALSE)
parseArguments(args) ==
    IF args = <<>> THEN Arguments(FALSE, <<>>, ArgInit)
    ELSE IF ToLower(args[1]) \notin {OpPack, OpDecrypt, OpUnpack, OpPartition}
    THEN Arguments(FALSE, ToLower(args[1]), ArgInit)
    ELSE ArgsEnd(ToLower(args[1]), ArgLoop(args, ArgInit))

\* OpenixPartition::parseFromData: false for no data, else parseFromStream
parseFromData(obj, lines) ==
    IF lines = <<>> THEN [ok |-> FALSE, obj |-> obj]
    ELSE [ok |-> TRUE, obj |-> parseFromStream(obj, lines)]

\* what the calls of main give: loadImage, then packImage, decryptImage or
\* unpackImage (true, false, or an exception), the bytes of
\* sys_partition.fex if the image holds it, and whether the -o file opens
Outcomes == {"true", "false", "throws"}
FexTexts == {<<>>, <<SectionPartition, PartLineNameA>>}
Envs ==
    [loaded : BOOLEAN, done : Outcomes, found : BOOLEAN, fex : FexTexts, opens : BOOLEAN]

\* how main ends: the exit status, whether showHelp ran, and whether a
\* failure message went to std::cerr
Exit(status, help, cerr) == [status |-> status, help |-> help, cerr |-> cerr]
\* "Default return operation success/failure status", the catch included
ExitOf(done) == IF done = "true" THEN Exit(0, FALSE, FALSE) ELSE Exit(1, FALSE, TRUE)
\* the partition operation: when the -o file does not open, the message
\* "Failed to open output file" is written, the table goes to the console
\* and main returns 0
MainPartition(p, env) ==
    IF ~env.loaded THEN Exit(1, FALSE, TRUE)
    ELSE IF ~env.found THEN Exit(1, FALSE, TRUE)
    ELSE IF ~parseFromData(NewPartition, env.fex).ok THEN Exit(1, FALSE, TRUE)
    ELSE Exit(0, FALSE, p.output # <<>> /\ ~env.opens)
MainRun(p, env) ==
    IF p.operation = OpPack THEN ExitOf(env.done)
    ELSE IF p.operation \in {OpDecrypt, OpUnpack}
    THEN IF ~env.loaded THEN Exit(1, FALSE, TRUE) ELSE ExitOf(env.done)
    ELSE MainPartition(p, env)
MainAfter(p, env) ==
    IF ~p.ok THEN [parsed |-> p, exit |-> Exit(1, TRUE, FALSE)]
    ELSE [parsed |-> p, exit |-> MainRun(p, env)]
main(args, env) == MainAfter(parseArguments(args), env)

\* command lines: an operation, or none, followed by at most MaxOptions
\* options
MaxOptions == 3
Operations == {OpPack, OpDecrypt, ArgUnpackUpper, OpPartition, ArgBogus}
OptionPool ==
    {<<OptInput, ArgImage>>, <<OptOutput, ArgOut>>, <<OptFormat, ArgUnimg>>,
     <<OptFormat, ArgImgrepacker>>, <<OptFormat, ArgBogus>>, <<OptVerbose>>, <<OptH>>,
     <<OptInput>>}
RECURSIVE Flatten(_)
Flatten(groups) == IF groups = <<>> THEN <<>> ELSE Head(groups) \o Flatten(Tail(groups))
CommandLines ==
    {<<>>} \cup {<<operation>> \o Flatten(groups) :
                    operation \in Operations,
                    groups \in UNION {[1..n -> OptionPool] : n \in 0..MaxOptions}}

\* a process runs main once
AppMain ==
    /\ Running
    /\ ret.op = "new"
    /\ \E args \in CommandLines, env \in Envs :
         ret' = Call("main", args, main(args, env), FALSE)
    /\ UNCHANGED <<disk, img, pk, cfg, text, part>>

InitApp ==
    /\ disk = Disk0
    /\ img = NewIMGFile
    /\ pk = NewPacker(FALSE)
    /\ cfg = NewCFG
    /\ text = <<>>
    /\ part = NewPartition
    /\ ret = Call("new", "", TRUE, FALSE)

NextApp == AppMain

SpecApp == InitApp /\ [][NextApp]_vars

(***************************************************************************)
(* The OpenixCFG object parsed from a text, extended through addGroup and  *)
(* serialized.                                                             *)
(***************************************************************************)
CfgDumpToString ==
    /\ Running
    /\ ret' = Call("dumpToString", "", dumpToString(cfg), FALSE)
    /\ UNCHANGED <<disk, img, pk, cfg, text, part>>

InitText ==
    /\ disk = Disk0
    /\ img = NewIMGFile
    /\ pk = NewPacker(FALSE)
    /\ cfg = NewCFG
    /\ text \in TextInputs
    /\ part = NewPartition
    /\ ret = Call("new", "", TRUE, FALSE)

NextText ==
    \/ CfgLoadFromStream
    \/ \E group \in TextApiGroups : CfgAddGroup(group)
    \/ CfgDumpToString

SpecText == InitText /\ [][NextText]_vars

(***************************************************************************)
(* The parsers of one line, applied to a line of text: text holds the one  *)
(* line, cfg the document the line is parsed against.                      *)
(***************************************************************************)
MaxLineLen == 4
LineChars == {"A", "b", "1", "_", ".", " ", "\"", "'", "-"}
\* numeric texts: the three bases, signs, and values around 2^31, 2^32 and 2^63
NumberLines ==
    {<<"0">>,
     <<"0", "1", "7">>,
     <<"0", "x", "1", "0">>,
     <<"0", "X", "1", "f">>,
     <<"0", "8">>,
     <<"0", "x">>,
     <<"-", "5">>,
     <<"-", "0", "x", "1", "0">>,
     <<"1", "A">>,
     <<"2", "1", "4", "7", "4", "8", "3", "6", "4", "8">>,
     <<"4", "2", "9", "4", "9", "6", "7", "2", "9", "5">>,
     <<"4", "2", "9", "4", "9", "6", "7", "2", "9", "6">>,
     <<"4", "2", "9", "4", "9", "6", "7", "2", "9", "7">>,
     <<"-", "4", "2", "9", "4", "9", "6", "7", "2", "9", "7">>,
     <<"0", "x", "1", "f", "f", "f", "f", "f", "f", "f", "f">>,
     <<"9", "2", "2", "3", "3", "7", "2", "0", "3", "6", "8", "5", "4", "7", "7", "5", "8", "0", "7">>,
     <<"-", "9", "2", "2", "3", "3", "7", "2", "0", "3", "6", "8", "5", "4", "7", "7", "5", "8", "0", "8">>,
     <<"9", "2", "2", "3", "3", "7", "2", "0", "3", "6", "8", "5", "4", "7", "7", "5", "8", "0", "8">>,
     <<"9", "9", "9", "9", "9", "9", "9", "9", "9", "9", "9", "9", "9", "9", "9", "9", "9", "9", "9", "9">>,
     <<"0", "x", "f", "f", "f", "f", "f", "f", "f", "f", "f", "f", "f", "f", "f", "f", "f", "f", "f">>,
     <<"-">>}
LineInputs == UNION {[1..n -> LineChars] : n \in 0..MaxLineLen} \cup NumberLines

\* documents a line is parsed against: the empty one, one with the group A
\* and a group whose name is a double quote, and one where the variable b
\* holds the text A, read before the group A was there
LineGroupG == <<"[", "G", "]">>
LineGroupQuote == <<"[", "\"", "]">>
LineBQuoteA == <<"b", "=", "\"", "A", "\"">>
LineDocs ==
    {NewCFG, loadFromStream(<<LineGroupA, LineGroupQuote>>).doc,
     loadFromStream(<<LineGroupG, LineBQuoteA, LineGroupA>>).doc}

CfgParseIdentifier ==
    /\ Running
    /\ ret' = Call("parseIdentifier", text[1], parseIdentifier(text[1]), FALSE)
    /\ UNCHANGED <<disk, img, pk, cfg, text, part>>

CfgParseExpression ==
    /\ Running
    /\ ret' = Call("parseExpression", text[1], parseExpression(cfg, text[1]), FALSE)
    /\ UNCHANGED <<disk, img, pk, cfg, text, part>>

InitLine ==
    /\ disk = Disk0
    /\ img = NewIMGFile
    /\ pk = NewPacker(FALSE)
    /\ cfg \in LineDocs
    /\ \E line \in LineInputs : text = <<line>>
    /\ part = NewPartition
    /\ ret = Call("new", "", TRUE, FALSE)

NextLine ==
    \/ CfgParseIdentifier
    \/ CfgParseExpression

SpecLine == InitLine /\ [][NextLine]_vars

(***************************************************************************)
(* The OpenixPartition object: a text parsed into it (a second parse adds  *)
(* to the records of the first) and dumped as JSON.                        *)
(***************************************************************************)
PartParseFromStream ==
    /\ Running
    /\ Len(part.partitions) < MaxPartitions
    /\ part' = (IF part = NewPartition THEN PartParsed[text]
                ELSE parseFromStream(part, text))
    /\ ret' = Call("parseFromStream", "", TRUE, FALSE)
    /\ UNCHANGED <<disk, img, pk, cfg, text>>

PartDumpToJson ==
    /\ Running
    /\ ret' = Call("dumpToJson", "", dumpToJson(part), FALSE)
    /\ UNCHANGED <<disk, img, pk, cfg, text, part>>

InitPartition ==
    /\ disk = Disk0
    /\ img = NewIMGFile
    /\ pk = NewPacker(FALSE)
    /\ cfg = NewCFG
    /\ text \in PartInputs
    /\ part = NewPartition
    /\ ret = Call("new", "", TRUE, FALSE)

NextPartition ==
    \/ PartParseFromStream
    \/ PartDumpToJson

SpecPartition == InitPartition /\ [][NextPartition]_vars

\* the texts of a second stream handed to the same object
SecondInputs ==
    {<<>>,
     <<SectionPartition, PartLineNameB>>,
     <<SectionPartition, PartLineNameA, PartLineSize>>,
     <<SectionPartitionStart, PartLineNameB, SectionPartition, PartLineNameA>>,
     <<PartLineSize>>,
     <<SectionMbr, SectionPartition, PartLineNameB, PartLineSize>>,
     <<SectionMbr, PartLineSize>>,
     <<SectionMbr, PartLineSize, SectionPartition, PartLineNameB>>}

\* the caller opens another stream: the next parse reads these lines
PartNextStream(lines) ==
    /\ Running
    /\ lines # text
    /\ text' = lines
    /\ UNCHANGED <<disk, img, pk, cfg, part, ret>>

NextReparse ==
    \/ PartParseFromStream
    \/ \E lines \in SecondInputs : PartNextStream(lines)

SpecReparse == InitPartition /\ [][NextReparse]_vars

(***************************************************************************)
(* Properties of loadImage (OpenixIMGFile, under SpecFile).                *)
(***************************************************************************)
\* C1: a loadImage call that returns false leaves the container not loaded,
\* whatever the container held before the call.
C1_FailedLoadLeavesNotLoaded ==
    (ret.op = "loadImage" /\ ~ret.fault /\ ret.val = FALSE) => ~img.imageLoaded_

\* the image is not encrypted on disk
IsPlain(bytes) ==
    Len(bytes) >= IMAGEWTY_FILEHDR_LEN /\ SubSeq(bytes, 1, IMAGEWTY_MAGIC_LEN) = IMAGEWTY_MAGIC
\* the image is shorter than 1024 + num_files * 1024
TooShort(bytes) == TableOutside(bytes, NumFiles(SubSeq(bytes, 1, SIZEOF_IMAGEHEADER)))
\* some file header has offset + stored_length beyond the length of the image
Overruns(bytes) ==
    LET hdr == SubSeq(bytes, 1, SIZEOF_IMAGEHEADER)
    IN \E i \in 0..(NumFiles(hdr) - 1) :
          AddSat(U32At(bytes, FileHeaderAt(i) + OffsetOff(IsV3(hdr)), 0),
                 U32At(bytes, FileHeaderAt(i) + StoredLengthOff(IsV3(hdr)), 0)) > Len(bytes)

\* C2: loadImage of an image shorter than its header table, or with a file
\* entry that reaches past the end of the image, returns false and touches
\* no byte outside the buffer.
C2_MalformedImageRejected ==
    (/\ ret.op = "loadImage"
     /\ Files(disk)[ret.arg].kind = "file"
     /\ Files(disk)[ret.arg].readable
     /\ IsPlain(Files(disk)[ret.arg].bytes)
     /\ (TooShort(Files(disk)[ret.arg].bytes) \/ Overruns(Files(disk)[ret.arg].bytes)))
    => (~ret.fault /\ ~ret.oob /\ ret.val = FALSE)

\* C3: whenever loadImage returns true the buffer starts with "IMAGEWTY".
C3_LoadedBufferStartsWithMagic ==
    (ret.op = "loadImage" /\ ~ret.fault /\ ret.val = TRUE)
    => (/\ Len(img.imageData_) >= IMAGEWTY_MAGIC_LEN
        /\ SubSeq(img.imageData_, 1, IMAGEWTY_MAGIC_LEN) = IMAGEWTY_MAGIC)

\* the u32 stored little-endian at byte offset off of the header copy
SlotAt(hdr, off) ==
    hdr[off + 1] + 256 * hdr[off + 2] + 65536 * hdr[off + 3] + 16777216 * hdr[off + 4]
\* where the identification slots start: one u32 later when header_version
\* is 0x0300
SlotBase(hdr) == IF SlotAt(hdr, 8) = 768 THEN 36 ELSE 32

\* C4: after a successful load pid, vid, hardware id, firmware id and the
\* number of files are the slots of the dialect that header_version alone
\* selects: the v3 slots for 0x0300, the v1 slots for every other value,
\* whatever the format field version holds.
C4_DialectByHeaderVersion ==
    (ret.op = "loadImage" /\ ~ret.fault /\ ret.val = TRUE)
    => LET hdr == img.imageHeader_
           base == SlotBase(hdr)
       IN /\ hdr = SubSeq(img.imageData_, 1, SIZEOF_IMAGEHEADER)
          /\ img.pid_ = SlotAt(hdr, base)
          /\ img.vid_ = SlotAt(hdr, base + 4)
          /\ img.hardwareId_ = SlotAt(hdr, base + 8)
          /\ img.firmwareId_ = SlotAt(hdr, base + 12)
          /\ Len(img.fileList_) = SlotAt(hdr, base + 24)

\* a v1 image whose version field holds 0x0300 is loaded with its v1 slots
C4_Witness ==
    /\ ret.op = "loadImage" /\ ~ret.fault /\ ret.val = TRUE /\ ret.arg = "v1.img"
    /\ SlotAt(img.imageHeader_, 20) = 768
    /\ SlotAt(img.imageHeader_, 8) = 256
    /\ img.pid_ = 4660 /\ img.firmwareId_ = 256
    /\ Len(img.fileList_) = 2

\* C6: the data returned for a file that was found is the originalLength
\* bytes of the buffer from its offset on.
C6_DataIsBufferSlice ==
    (ret.op = "getFileDataByFilename")
    => /\ ~ret.fault
       /\ ret.val.found =>
            LET e == img.fileList_[ret.val.index]
            IN /\ AddSat(e.offset, e.originalLength) <= Len(img.imageData_)
               /\ ret.val.data = SubSeq(img.imageData_, e.offset + 1, e.offset + e.originalLength)

(***************************************************************************)
(* Properties of OpenixPacker (under SpecPacker).                          *)
(***************************************************************************)
\* the table of file headers lies inside the buffer of the packer
PackerTableInside(o) ==
    /\ Len(o.imageData_) >= IMAGEWTY_FILEHDR_LEN
    /\ ~TableOutside(o.imageData_, NumFiles(o.imageHeader_))

\* C5: the lookup by filename answers with the first entry, in header
\* order, whose cleaned filename equals the name asked for, and with absent
\* when there is none (here for OpenixPacker::getFileDataByFilename, which
\* then agrees with OpenixIMGFile::getFileDataByFilename).
C5_PackerLookupByCleanedName ==
    (/\ ret.op = "getFileDataByFilename" /\ ~ret.fault /\ ~ret.oob
     /\ pk.imageLoaded_ /\ PackerTableInside(pk))
    => ret.val.index = FileFirstMatch(loadFileList(pk.imageData_, pk.imageHeader_, 0), ret.arg)

\* the variables, behind the two fields of ret that tell two calls apart
stepVars == <<ret.op, ret.fault, vars>>

\* the step is a decryptImage call
DecryptCall == disk' = disk /\ ret'.op = "decryptImage"
\* the source of the loaded image cannot be opened for reading
SourceUnreadable(o, d) ==
    d[o.imageFilePath_].kind # "file" \/ ~d[o.imageFilePath_].readable

HoldsEncrypted(o, d) ==
    /\ o.imageLoaded_ /\ o.isEncrypted_
    /\ ~SourceUnreadable(o, d)
    /\ o.imageSize_ = Len(d[o.imageFilePath_].bytes)
\* the three decryption passes over the bytes of a file: what a load with
\* encryption enabled leaves in the buffer
ThreePass(bytes) == Parsed["File", TRUE, bytes, 0].imageData_
\* the call wrote the three-pass decryption of the source as it is now
WroteDecryptedSource(o, d, r) ==
    /\ ~r.fault /\ r.val.ret /\ r.val.wrote
    /\ Len(r.val.bytes) = Len(d[o.imageFilePath_].bytes)
    /\ r.val.bytes = ThreePass(d[o.imageFilePath_].bytes)

LastInserted(doc, name) ==
    LET hits == UNION {{[g |-> g, v |-> v] :
                           v \in {i \in 1..Len(doc.headGroup_[g].variables) :
                                     doc.headGroup_[g].variables[i].name = name}} :
                       g \in 1..Len(doc.headGroup_)}
    IN  IF hits = {} THEN NullVariable
        ELSE CHOOSE p \in hits :
                \A q \in hits : q.g < p.g \/ (q.g = p.g /\ q.v <= p.v)

\* C9: findVariable(name) returns the variable most recently inserted under
\* the name across all groups, for parsed documents and for documents built
\* with addGroup alike, and findVariable(name, group) returns only a
\* variable of that name that belongs to a group of the given name.
C9_FindVariableLastWriteWins ==
    /\ ret.op = "findVariable" => ret.val = LastInserted(cfg, ret.arg)
    /\ ret.op = "findVariableInGroup" /\ ret.val # NullVariable =>
          /\ cfg.headGroup_[ret.val.g].name = ret.arg[2]
          /\ Deref(cfg, ret.val).name = ret.arg[1]

\* the lines loadFromStream takes before it returns or throws: those before
\* the first line that is neither blank, comment, header, list nor key-value
FirstChar(line) == IF skipWhitespace(line) = <<>> THEN "" ELSE skipWhitespace(line)[1]
IsHeader(line) == FirstChar(line) = "["
IsEntry(line) == FirstChar(line) = "{" \/ isalpha(FirstChar(line))
IsUnknown(line) == FirstChar(line) \notin {"", ";", "#", "["} /\ ~IsEntry(line)
Taken(lines) ==
    LET bad == {i \in 1..Len(lines) : IsUnknown(lines[i])}
    IN  IF bad = {} THEN lines
        ELSE SubSeq(lines, 1, (CHOOSE i \in bad : \A j \in bad : i <= j) - 1)

\* the position of the k-th header line, Len(lines) + 1 past the last one
HeaderAt(lines, k) ==
    LET at == {i \in 1..Len(lines) : IsHeader(lines[i])}
    IN  IF k > Cardinality(at) THEN Len(lines) + 1
        ELSE CHOOSE i \in at : Cardinality({j \in at : j <= i}) = k

\* the list and key-value lines between the k-th header and the next
EntriesOf(lines, k) ==
    SelectSeq(SubSeq(lines, HeaderAt(lines, k) + 1, HeaderAt(lines, k + 1) - 1), IsEntry)

EntryName(line) ==
    IF FirstChar(line) = "{" THEN <<>> ELSE parseIdentifier(skipWhitespace(line)).val

\* the last group of the name in the ordered list, 0 where there is none
LastGroup(doc, name) ==
    LET at == {k \in 1..Len(doc.headGroup_) : doc.headGroup_[k].name = name}
    IN  IF at = {} THEN 0 ELSE CHOOSE k \in at : \A j \in at : j <= k

\* C10: after loadFromStream the ordered group list is the sequence of the
\* header lines in source order, same-name groups all kept, every group
\* holds the variables of the lines that follow its header in source order,
\* and findGroup(name) returns the last group inserted under the name.
C10_GroupsInSourceOrder ==
    /\ ret.op = "loadFromStream" /\ ~ret.fault =>
          LET src == Taken(text)
              n == Cardinality({i \in 1..Len(src) : IsHeader(src[i])})
          IN  /\ Len(cfg.headGroup_) = n
              /\ \A k \in 1..n :
                    /\ cfg.headGroup_[k].name = parseGroup(skipWhitespace(src[HeaderAt(src, k)])).group.name
                    /\ Len(cfg.headGroup_[k].variables) = Len(EntriesOf(src, k))
                    /\ \A j \in 1..Len(EntriesOf(src, k)) :
                          /\ cfg.headGroup_[k].variables[j].name = EntryName(EntriesOf(src, k)[j])
                          /\ (cfg.headGroup_[k].variables[j].type = "LIST_ITEM")
                                = (FirstChar(EntriesOf(src, k)[j]) = "{")
              /\ \A name \in GroupNames : findGroup(cfg, name) = LastGroup(cfg, name)
    /\ ret.op = "findGroup" => ret.val = LastGroup(cfg, ret.arg)

\* a text with two headers of one name and two variables under the first
\* has been parsed, and the map holds the second group under the name
C10_Witness ==
    /\ ret.op = "loadFromStream" /\ ~ret.fault /\ ret.val.returned
    /\ \E k \in 1..Len(cfg.headGroup_) :
          /\ k < findGroup(cfg, cfg.headGroup_[k].name)
          /\ Len(cfg.headGroup_[k].variables) = 2
          /\ cfg.headGroup_[k].variables[1].name # cfg.headGroup_[k].variables[2].name

(***************************************************************************)
(* Properties of the serializer and the line dispatch (under SpecText).    *)
(***************************************************************************)
\* the parse r ended normally and left the groups, variables, kinds and
\* values of doc
SameDocument(r, doc) == ~r.fault /\ ~r.threw /\ r.doc.headGroup_ = doc.headGroup_

\* C11: parsing the text dumpToString gives for a document yields the same
\* groups in the same order with the same variables, kinds and values.
C11_DumpParseRoundTrip ==
    (ret.op = "dumpToString") => SameDocument(loadFromStream(ret.val), cfg)

\* the first character of the line that is no white space, "" where the
\* line holds nothing but white space or a ';' comment
LeadingChar(line) == IF skipWhitespace(line) = <<>> THEN "" ELSE skipWhitespace(line)[1]
\* the line makes loadFromStream throw: it starts with none of '[', '{', a
\* letter, ';' or '#'
IsFatalLine(line) ==
    LeadingChar(line) \notin {"", "[", "{", ";", "#"} \cup Lower \cup Upper
\* the same with the digits among the accepted first characters
IsFatalLineButDigits(line) == IsFatalLine(line) /\ LeadingChar(line) \notin DigitChars
\* the text without the '{' and key-value lines that come before its first
\* group header
RECURSIVE WithoutOrphans(_)
WithoutOrphans(lines) ==
    IF lines = <<>> \/ LeadingChar(lines[1]) = "[" THEN lines
    ELSE IF LeadingChar(lines[1]) \in {"{"} \cup Lower \cup Upper
    THEN WithoutOrphans(Tail(lines))
    ELSE <<lines[1]>> \o WithoutOrphans(Tail(lines))

FreshParse == part = NewPartition /\ ret'.op = "parseFromStream"

\* the records read section by section: a [partition] line closes the
\* pending record and opens a section, [mbr] and [partition_start] end the
\* section, every line of an open section is dispatched on its key, and the
\* end of the text closes the pending record
SectionState(records, open, pending) ==
    [records |-> records, open |-> open, pending |-> pending]
SectionLine(s, line) ==
    IF line = <<>> \/ line[1] = ";" \/ (Len(line) >= 2 /\ line[1] = "/" /\ line[2] = "/") THEN s
    ELSE IF line = SectionPartition
    THEN SectionState(Flushed(s.records, s.pending), TRUE, Partition)
    ELSE IF line \in {SectionMbr, SectionPartitionStart}
    THEN SectionState(s.records, FALSE, s.pending)
    ELSE IF s.open THEN SectionState(s.records, TRUE, parseLine(line, s.pending))
    ELSE s
RECURSIVE SectionLoop(_, _, _)
SectionLoop(lines, i, s) ==
    IF i > Len(lines) THEN Flushed(s.records, s.pending).partitions
    ELSE SectionLoop(lines, i + 1, SectionLine(s, Trim(lines[i])))
SectionRecords(lines) == SectionLoop(lines, 1, SectionState(NewPartition, FALSE, Partition))

\* the text holds no section marker but [partition]
OnlyPartitionSections(lines) ==
    \A i \in 1..Len(lines) : Trim(lines[i]) \notin {SectionMbr, SectionPartitionStart}

\* the names of the records, in order
RecordNames(partitions) == [i \in 1..Len(partitions) |-> partitions[i].name]

\* C13: inside a [partition] section every key = value line sets the field
\* its key names wherever the line stands in the section, the lines before
\* the name line included: a text of [partition] sections parsed into a
\* fresh object gives the records read section by section.
C13_FieldsAnywhereInSection ==
    [][(FreshParse /\ OnlyPartitionSections(text))
       => part'.partitions = SectionRecords(text)]_stepVars

\* C14: a text parsed into a fresh object gives, in source order, exactly
\* one record for each [partition] section with a name; the pending record
\* is closed by the next [partition] line and by the end of the text,
\* whatever [mbr] or [partition_start] lines come in between.
C14_OneRecordPerSection ==
    [][FreshParse
       => RecordNames(part'.partitions) = RecordNames(SectionRecords(text))]_stepVars

\* JSON (RFC 8259): the character an escape of two characters stands for;
\* "BS" stands for the backspace character
JsonEscape ==
    [c \in {"\"", "\\", "/", "b", "f", "n", "r", "t"} |->
        CASE c = "b" -> "BS"
          [] c = "f" -> "\f"
          [] c = "n" -> "\n"
          [] c = "r" -> "\r"
          [] c = "t" -> "\t"
          [] OTHER -> c]
\* the characters of a JSON string read from pos, the position after its
\* opening quote, up to its closing quote; ok is false when the line ends
\* inside the string, or holds a control character or an escape that JSON
\* does not have (\u escapes, which no text here holds, are not read)
JsonRead(ok, val, pos) == [ok |-> ok, val |-> val, pos |-> pos]
RECURSIVE JsonChars(_, _, _)
JsonChars(line, pos, acc) ==
    IF pos > Len(line) THEN JsonRead(FALSE, acc, pos)
    ELSE IF line[pos] = "\"" THEN JsonRead(TRUE, acc, pos + 1)
    ELSE IF line[pos] = "\\"
    THEN IF pos < Len(line) /\ line[pos + 1] \in DOMAIN JsonEscape
         THEN JsonChars(line, pos + 2, Append(acc, JsonEscape[line[pos + 1]]))
         ELSE JsonRead(FALSE, acc, pos)
    ELSE IF line[pos] \in {"\t", "\n", "\r", "\f"} THEN JsonRead(FALSE, acc, pos)
    ELSE JsonChars(line, pos + 1, Append(acc, line[pos]))

\* the line is the member key with a value, followed by a comma unless last
StartsWith(line, prefix) ==
    Len(line) >= Len(prefix) /\ SubSeq(line, 1, Len(prefix)) = prefix
EndsAt(line, pos, last) ==
    SubSeq(line, pos, Len(line)) = (IF last THEN <<>> ELSE <<",">>)
\* the member is a string that reads as value
ReadsString(line, start, value, last) ==
    /\ StartsWith(line, Append(start, "\""))
    /\ JsonChars(line, Len(start) + 2, <<>>).ok
    /\ JsonChars(line, Len(start) + 2, <<>>).val = value
    /\ EndsAt(line, JsonChars(line, Len(start) + 2, <<>>).pos, last)
\* the member is a number in decimal that reads as value
ReadsNumber(line, start, value, last) ==
    /\ StartsWith(line, start)
    /\ PartDigits(line, Len(start) + 1, 10, 0).pos > Len(start) + 1
    /\ PartDigits(line, Len(start) + 1, 10, 0).val = value
    /\ EndsAt(line, PartDigits(line, Len(start) + 1, 10, 0).pos, last)
\* the member is the literal true or false that value is
ReadsBool(line, start, value, last) ==
    /\ StartsWith(line, start)
    /\ EndsAt(line, Len(start) + 1 + Len(IF value THEN JsonTrue ELSE JsonFalse), last)
    /\ StartsWith(line, start \o (IF value THEN JsonTrue ELSE JsonFalse))

\* the ten lines from lines[first] are a JSON object whose eight members
\* read as the fields of the partition
ReadsPartition(lines, first, partition, isLast) ==
    /\ lines[first] = JsonObjectOpen
    /\ ReadsString(lines[first + 1], JsonKey(KeyName), partition.name, FALSE)
    /\ ReadsNumber(lines[first + 2], JsonKey(KeySize), partition.size, FALSE)
    /\ ReadsString(lines[first + 3], JsonKey(KeyDownloadfile), partition.downloadfile, FALSE)
    /\ ReadsNumber(lines[first + 4], JsonKey(KeyUserType), partition.user_type, FALSE)
    /\ ReadsBool(lines[first + 5], JsonKey(KeyKeydata), partition.keydata, FALSE)
    /\ ReadsBool(lines[first + 6], JsonKey(KeyEncrypt), partition.encrypt, FALSE)
    /\ ReadsBool(lines[first + 7], JsonKey(KeyVerify), partition.verify, FALSE)
    /\ ReadsBool(lines[first + 8], JsonKey(KeyRo), partition.ro, TRUE)
    /\ lines[first + 9] = JsonObjectClose \o (IF isLast THEN <<>> ELSE <<",">>)

\* the lines are a JSON object with mbr_size and the array of the partitions
ReadsAs(lines, obj) ==
    /\ Len(lines) = 5 + 10 * Len(obj.partitions)
    /\ lines[1] = JsonOpen
    /\ ReadsNumber(lines[2], JsonMbrSize, obj.mbrSize, FALSE)
    /\ lines[3] = JsonPartitions
    /\ \A i \in 1..Len(obj.partitions) :
          ReadsPartition(lines, 10 * i - 6, obj.partitions[i], i = Len(obj.partitions))
    /\ lines[Len(lines) - 1] = JsonArrayClose
    /\ lines[Len(lines)] = JsonClose

\* C15: the text dumpToJson returns is well-formed JSON in which mbr_size
\* and the eight members of every partition read as the values the object
\* holds, a downloadfile with a backslash or a double quote included.
C15_JsonReadsAsParsed == (ret.op = "dumpToJson") => ReadsAs(ret.val, part)

(***************************************************************************)
(* Properties of unpackImage (OpenixPacker, under SpecUnpack).             *)
(***************************************************************************)
\* the call was unpackImage and it wrote image.cfg
WroteConfig == ret.op = "unpackImage" /\ ~ret.fault /\ ret.val.ret
\* the names of the groups of a document, in order
GroupOrder(doc) == [g \in 1..Len(doc.headGroup_) |-> doc.headGroup_[g].name]
\* the bytes of member off..off+n-1 of file header i, when the header lies
\* inside the buffer
HeaderField(o, i, off, n) ==
    SubSeq(o.imageData_, FileHeaderAt(i) + off + 1, FileHeaderAt(i) + off + n)
\* the variable is an anonymous list of the three strings filename,
\* maintype, subtype
IsFileEntry(var) ==
    /\ var.name = <<>> /\ var.type = "LIST_ITEM"
    /\ [k \in 1..Len(var.items) |-> var.items[k].name] = <<VarFilename, VarMaintype, VarSubtype>>
    /\ \A k \in 1..Len(var.items) : var.items[k].type = "STRING"

\* C16: the document unpackImage writes into image.cfg has the three groups
\* DIR_DEF, FILELIST, IMAGE_CFG and no other; FILELIST holds num_files
\* variables, each an anonymous list of the strings filename, maintype,
\* subtype, the i-th made from the i-th file header.
C16_ImageCfgDocument ==
    WroteConfig =>
        /\ GroupOrder(ret.val.doc) = <<DIR_DEF, FILELIST, IMAGE_CFG>>
        /\ Len(ret.val.doc.headGroup_[2].variables) = NumFiles(pk.imageHeader_)
        /\ \A i \in 1..Len(ret.val.doc.headGroup_[2].variables) :
              /\ IsFileEntry(ret.val.doc.headGroup_[2].variables[i])
              /\ ~ReadsOutside(pk.imageData_, FileHeaderAt(i - 1), IMAGEWTY_FILEHDR_LEN)
                 => /\ ret.val.doc.headGroup_[2].variables[i].items[2].str
                       = CharsOf(HeaderField(pk, i - 1, MaintypeOff, IMAGEWTY_FHDR_MAINTYPE_LEN))
                    /\ ret.val.doc.headGroup_[2].variables[i].items[3].str
                       = CharsOf(HeaderField(pk, i - 1, SubtypeOff, IMAGEWTY_FHDR_SUBTYPE_LEN))

\* the two files of v1.img were unpacked in the IMGREPACKER layout, the
\* second entry carrying the stored filename "a "
C16_Witness ==
    /\ WroteConfig /\ pk.imageFilePath_ = "v1.img" /\ pk.outputFormat_ = "IMGREPACKER"
    /\ Len(ret.val.doc.headGroup_[2].variables) = 2
    /\ ret.val.doc.headGroup_[2].variables[2].items[1].str = <<"a", " ">>
    /\ ret.val.doc.headGroup_[2].variables[1].items[2].str[1] = "B"

\* the variables of the name in the group IMAGE_CFG of the document
ImageCfgVars(doc, name) ==
    {v \in 1..Len(doc.headGroup_[3].variables) : doc.headGroup_[3].variables[v].name = name}
\* the group holds one variable of the name, a Reference with the value
IsReference(doc, name, value) ==
    /\ Cardinality(ImageCfgVars(doc, name)) = 1
    /\ \A v \in ImageCfgVars(doc, name) :
          /\ doc.headGroup_[3].variables[v].type = "REFERENCE"
          /\ doc.headGroup_[3].variables[v].str = value

\* C17 as amended: in IMAGE_CFG imagename is a Reference whose value is the
\* path the image was loaded from, and filelist is a Reference with the
\* value FILELIST.
C17_ImageCfgReferences ==
    WroteConfig =>
        /\ IsReference(ret.val.doc, VarImagename, PathChars(pk.imageFilePath_))
        /\ IsReference(ret.val.doc, VarFilelist, FILELIST)

\* the image loaded from v3e.img was unpacked: imagename is v3e.img
C17_Witness ==
    /\ WroteConfig /\ pk.imageFilePath_ = "v3e.img"
    /\ IsReference(ret.val.doc, VarImagename, <<"v", "3", "e", ".", "i", "m", "g">>)
    /\ IsReference(ret.val.doc, VarFilelist, FILELIST)

\* C17 as stated: imagename and filelist are both References with the value
\* FILELIST, whatever the image and the path it was loaded from.
C17_Original ==
    WroteConfig =>
        /\ IsReference(ret.val.doc, VarImagename, FILELIST)
        /\ IsReference(ret.val.doc, VarFilelist, FILELIST)

\* every file of the call was written: its content file and, in the UNIMG
\* layout, its header file
AllWritten(files, format) ==
    \A i \in 1..Len(files) :
        files[i].content.written /\ (format = "UNIMG" => files[i].header.written)

\* C18: a file whose header or payload cannot be written does not stop the
\* files after it, and unpackImage returns the conjunction of the per-file
\* outcomes: true exactly when every file and image.cfg were written.
C18_UnpackReturnsConjunction ==
    (ret.op = "unpackImage" /\ ~ret.fault /\ pk.imageLoaded_ /\ Creatable(ret.arg)) =>
        /\ Len(ret.val.files) = NumFiles(pk.imageHeader_)
        /\ ret.val.ret = (AllWritten(ret.val.files, pk.outputFormat_) /\ ret.val.config # <<>>)

(***************************************************************************)
(* Properties of the command line front-end (under SpecApp).               *)
(***************************************************************************)
\* C19: the program exits with 0 exactly when the operation succeeded and
\* with 1 on every failure: a command line that is refused, an image that
\* does not load, a pack, decrypt or unpack that fails, a sys_partition.fex
\* that is missing or does not parse, a partition run whose -o file cannot
\* be opened.
C19_ExitStatus ==
    (ret.op = "main") =>
        ret.val.exit.status = (IF ret.val.exit.help \/ ret.val.exit.cerr THEN 1 ELSE 0)

\* the states in which the loop of parseArguments looks at an argument
RECURSIVE ArgStates(_, _)
ArgStates(args, s) ==
    IF s.i > Len(args) \/ s.help THEN {} ELSE {s} \cup ArgStates(args, ArgStep(args, s))
\* the loop is at a --format flag whose value is no known format
AtUnknownFormat(args, s) ==
    /\ args[s.i] = OptFormat /\ s.i + 1 <= Len(args)
    /\ args[s.i + 1] \notin {ArgUnimg, ArgImgrepacker}

\* C20: whenever parseArguments meets a --format flag whose value is neither
\* unimg nor imgrepacker, the output format after that flag is UNIMG,
\* whatever the --format flags before it.
C20_UnknownFormatIsUnimg ==
    (ret.op = "main" /\ ret.val.parsed.operation \in {OpPack, OpDecrypt, OpUnpack, OpPartition})
    => \A s \in ArgStates(ret.arg, ArgInit) :
          AtUnknownFormat(ret.arg, s) => ArgStep(ret.arg, s).outputFormat = "UNIMG"


(***************************************************************************)
(* C21: cursor of the content decryption pass.                             *)
(***************************************************************************)
\* the buffer of a tiled image when loadImage enters the loop over the file
\* headers: header and header table decrypted
EnteringLoop(t) ==
    LET n == Len(Layout(t))
        r1 == FileRc6DecryptInPlace(Tiles[t], 0, IMAGEWTY_FILEHDR_LEN, headerContext_, 0)
    IN FileRc6DecryptInPlace(r1.buf, IMAGEWTY_FILEHDR_LEN, n * IMAGEWTY_FILEHDR_LEN,
                             fileHeadersContext_, 0).buf

\* the value of current when the loop reaches file i (0-based): the cursor
\* the loop over the i files before it returns
ContentStarts ==
    [t \in TileNames |->
        [i \in 0..(Len(Layout(t)) - 1) |->
            ContentLoop("File", TRUE, TRUE, EnteringLoop(t), i, TRUE, 0, 0,
                        PayloadStart(Len(Layout(t)))).cur]]

LoadedTiled ==
    /\ ret.op = "loadImage" /\ ret.arg = "tiled.img" /\ ret.val
    /\ disk["tiled.img"] \in TileNames
    /\ img.isEncrypted_ /\ img.encryptionEnabled_

\* C21: after loadImage has decrypted an encrypted image, the decrypt pass of
\* file i started at 1024 + num_files * 1024 + the sum of stored_length of the
\* files before it, whatever the stored lengths are.
C21_CursorAdvancesByStoredLength ==
    LoadedTiled =>
        LET t == disk["tiled.img"]
            n == Len(Layout(t))
        IN \A i \in 0..(n - 1) :
             ContentStarts[t][i] = PayloadStart(n) + StoredSum(Layout(t), i)


(***************************************************************************)
(* C22: what the load has decrypted when the file entries tile the payload *)
(* region.                                                                 *)
(***************************************************************************)
\* the payload range of file list entry f
RangeOf(f) == [from |-> f.offset, to |-> f.offset + f.storedLength]
Disjoint(r, s) == r.to <= s.from \/ s.to <= r.from \/ r.from = r.to \/ s.from = s.to

RECURSIVE ListedSum(_, _)
ListedSum(files, n) == IF n = 0 THEN 0 ELSE ListedSum(files, n - 1) + files[n].storedLength

\* the entries of the file list tile the payload region of an image of the
\* given size
Tiling(files, size) ==
    LET n == Len(files)
    IN /\ n > 0
       /\ size = PayloadStart(n) + ListedSum(files, n)
       /\ \A i \in 1..n :
            /\ files[i].storedLength % RC6_BLOCK = 0
            /\ RangeOf(files[i]).from >= PayloadStart(n)
            /\ RangeOf(files[i]).to <= size
       /\ \A i, j \in 1..n : i # j => Disjoint(RangeOf(files[i]), RangeOf(files[j]))

BlockAt(buf, off) == SubSeq(buf, off + 1, off + RC6_BLOCK)

GroupNamesOf(doc) == {doc.headGroup_[g].name : g \in 1..Len(doc.headGroup_)}

HasQuote(s) == \E i \in 1..Len(s) : s[i] = "\""

\* the expression does not take the numeric branch: its first character after
\* the white space is neither a digit nor '-'
NonNumeric(line) ==
    LET l == skipWhitespace(line)
    IN l = <<>> \/ ~(isdigit(l[1]) \/ l[1] = "-")

IdentifierStart(c) == isalpha(c) \/ c \in {"_", "."}
IdentifierChar(c) == isalnum(c) \/ c \in {"_", "."}
LongestIdentifier(l) ==
    IF l = <<>> \/ ~IdentifierStart(l[1]) THEN 0
    ELSE CHOOSE n \in 1..Len(l) :
            /\ \A i \in 1..n : IdentifierChar(l[i])
            /\ n = Len(l) \/ ~IdentifierChar(l[n + 1])

\* C24: parseIdentifier returns the longest prefix of the line (after its
\* white space) that matches [A-Za-z_.][A-Za-z0-9_.]* and leaves the rest of
\* the line, wherever the identifier has a '.'.
C24_LongestIdentifierPrefix ==
    (ret.op = "parseIdentifier") =>
        LET l == skipWhitespace(ret.arg)
            n == LongestIdentifier(l)
        IN /\ ret.val.val = SubSeq(l, 1, n)
           /\ ret.val.line = Drop(l, n)


(***************************************************************************)
(* C25: the Number of an expression that starts with a digit or '-'.       *)
(***************************************************************************)
\* the 16-bit halves of a Number
HighHalf(num) == ((num - (num % 65536)) \div 65536) % 65536
LowHalf(num) == num % 65536

\* what reading a numeric text gives: the value modulo 2^32 as its two 16-bit
\* halves and the text left after the numeral; a text that is no numeral or
\* whose value is no 64-bit signed value gives the Number 0 and stays whole
Read(hi, lo, rest) == [hi |-> hi, lo |-> lo, rest |-> rest]
Unread(line) == Read(0, 0, line)
NumberValue(line) ==
    CASE line = <<"0">> -> Read(0, 0, <<>>)
      [] line = <<"0", "1", "7">> -> Read(0, 15, <<>>)
      [] line = <<"0", "x", "1", "0">> -> Read(0, 16, <<>>)
      [] line = <<"0", "X", "1", "f">> -> Read(0, 31, <<>>)
      [] line = <<"0", "8">> -> Read(0, 0, <<"8">>)
      [] line = <<"0", "x">> -> Read(0, 0, <<"x">>)
      [] line = <<"-", "5">> -> Read(65535, 65531, <<>>)
      [] line = <<"-", "0", "x", "1", "0">> -> Read(65535, 65520, <<>>)
      [] line = <<"1", "A">> -> Read(0, 1, <<"A">>)
      [] line = <<"2", "1", "4", "7", "4", "8", "3", "6", "4", "8">> -> Read(32768, 0, <<>>)
      [] line = <<"4", "2", "9", "4", "9", "6", "7", "2", "9", "5">> -> Read(65535, 65535, <<>>)
      [] line = <<"4", "2", "9", "4", "9", "6", "7", "2", "9", "6">> -> Read(0, 0, <<>>)
      [] line = <<"4", "2", "9", "4", "9", "6", "7", "2", "9", "7">> -> Read(0, 1, <<>>)
      [] line = <<"-", "4", "2", "9", "4", "9", "6", "7", "2", "9",
                  "7">>
          -> Read(65535, 65535, <<>>)
      [] line = <<"0", "x", "1", "f", "f", "f", "f", "f", "f", "f",
                  "f">>
          -> Read(65535, 65535, <<>>)
      [] line = <<"9", "2", "2", "3", "3", "7", "2", "0", "3", "6",
                  "8", "5", "4", "7", "7", "5", "8", "0", "7">>
          -> Read(65535, 65535, <<>>)
      [] line = <<"-", "9", "2", "2", "3", "3", "7", "2", "0", "3",
                  "6", "8", "5", "4", "7", "7", "5", "8", "0", "8">>
          -> Read(0, 0, <<>>)
      [] line = <<"9", "2", "2", "3", "3", "7", "2", "0", "3", "6",
                  "8", "5", "4", "7", "7", "5", "8", "0", "8">>
          -> Unread(line)
      [] line = <<"9", "9", "9", "9", "9", "9", "9", "9", "9", "9",
                  "9", "9", "9", "9", "9", "9", "9", "9", "9", "9">>
          -> Unread(line)
      [] line = <<"0", "x", "f", "f", "f", "f", "f", "f", "f", "f",
                  "f", "f", "f", "f", "f", "f", "f", "f", "f">>
          -> Unread(line)
      [] line = <<"-">> -> Unread(line)
\* C25: the Number parseExpression stores for a numeric text is its signed
\* value (decimal, hexadecimal after 0x, octal after 0) modulo 2^32, the
\* numeral is consumed, and a text the conversion cannot represent gives a
\* Number without a parse error.
C25_NumberModulo32 ==
    (ret.op = "parseExpression" /\ ret.arg \in NumberLines) =>
        LET v == ret.val.var
            n == NumberValue(ret.arg)
        IN /\ v.type = "NUMBER"
           /\ HighHalf(v.num) = n.hi
           /\ LowHalf(v.num) = n.lo
           /\ ret.val.line = n.rest

\* 4294967297 has been read as 1, -5 as 0xfffffffb and a text beyond 64 bits
\* has given a Number
C25_Witness ==
    /\ ret.op = "parseExpression"
    /\ \/ ret.arg = <<"4", "2", "9", "4", "9", "6", "7", "2", "9", "7">> /\ ret.val.var.num = 1
       \/ ret.arg = <<"-", "5">> /\ ret.val.var.num = 0 - 5
       \/ /\ ret.arg = <<"9", "2", "2", "3", "3", "7", "2", "0", "3", "6", "8", "5", "4", "7",
                         "7", "5", "8", "0", "8">>
          /\ ret.val.var.type = "NUMBER"


(***************************************************************************)
(* C26: the Twofish key of the two classes.                                *)
(***************************************************************************)
\* k[0] = 5, k[1] = 4 and k[i] = (k[i-1] + k[i-2]) mod 256 for i in 2..31
IsTwofishKey(k) ==
    /\ Len(k) = 32
    /\ k[1] = 5
    /\ k[2] = 4
    /\ \A i \in 3..32 : k[i] = (k[i - 1] + k[i - 2]) % 256

\* C26: the 32-byte Twofish key of an OpenixIMGFile and of an OpenixPacker
\* starts 5, 4, every later byte is the sum of the two before it modulo 256,
\* and the two keys are the same.
C26_TwofishKey ==
    /\ IsTwofishKey(img.twofishKey_)
    /\ IsTwofishKey(pk.twofishKey_)
    /\ img.twofishKey_ = pk.twofishKey_

\* a packer that has loaded an image holds the key, whose sums have passed 255
C26_Witness ==
    /\ pk.imageLoaded_
    /\ SubSeq(pk.twofishKey_, 1, 4) = <<5, 4, 9, 13>>
    /\ \E i \in 3..32 : pk.twofishKey_[i - 1] + pk.twofishKey_[i - 2] > 255


(***************************************************************************)
(* C27: absent groups and variables in loadFromStream.                     *)
(***************************************************************************)
\* C27: loadFromStream never dereferences an absent group or variable: a
\* line that gives no group or no variable is rejected before anything is
\* linked or indexed, so no call ends in a fault.
C27_NoAbsentObject == ~(ret.op = "loadFromStream" /\ ret.fault)


(***************************************************************************)
(* C28: what isImageLoaded() says about the buffer.                        *)
(***************************************************************************)
\* the contents a read of path p can have found
ContentsAt(p) ==
    IF p \in Paths THEN {Original(p).bytes, Rewritten(p).bytes} \cap Contents ELSE {}

\* the buffers a load of these contents leaves
BuffersOf(cls, contents) ==
    {Parsed[cls, enabled, bytes, junk].imageData_ :
        enabled \in BOOLEAN, bytes \in contents, junk \in JunkBytes}

\* C28: whatever calls of loadImage, freeImage, reloadImage and
\* setEncryptionEnabled were made, failed loads included, a container that
\* says it is loaded has a non-zero recorded size equal to the length of its
\* buffer, and the buffer is what a load of the stored path's contents leaves.
C28_LoadedMeansBufferOfPath ==
    pk.imageLoaded_ =>
        /\ pk.imageSize_ # 0
        /\ pk.imageSize_ = Len(pk.imageData_)
        /\ pk.imageData_ \in BuffersOf("Packer", ContentsAt(pk.imageFilePath_))


(***************************************************************************)
(* C29: freeImage and reloadImage().                                       *)
(***************************************************************************)
\* the file p can be read into the buffer: a regular, readable, non-empty
\* file
Readable(p) ==
    /\ Files(disk)[p].kind = "file"
    /\ Files(disk)[p].readable
    /\ Len(Files(disk)[p].bytes) > 0

C29_Step ==
    /\ ret'.op = "loadImage" /\ ~ret'.fault /\ Readable(ret'.arg)
           => img'.imageFilePath_ = ret'.arg
    /\ ret'.op = "freeImage"
           => /\ ~img'.imageLoaded_
              /\ img'.imageData_ = <<>>
              /\ img'.imageSize_ = 0
              /\ img'.fileList_ = <<>>
              /\ <<img'.pid_, img'.vid_, img'.hardwareId_, img'.firmwareId_>> = <<0, 0, 0, 0>>
              /\ img'.imageFilePath_ = img.imageFilePath_
    /\ ret'.op = "reloadImage" /\ img.imageFilePath_ = ""
           => ~ret'.val /\ ~ret'.fault /\ img' = img /\ disk' = disk
    /\ ret'.op = "reloadImage" /\ img.imageFilePath_ # "" /\ ~ret'.fault
           => /\ ret'.arg = img.imageFilePath_
              /\ Readable(img.imageFilePath_)
                     => /\ ret'.val
                        /\ img'.imageLoaded_
                        /\ img'.imageFilePath_ = img.imageFilePath_
                        /\ img'.imageSize_ = Len(Files(disk)[img.imageFilePath_].bytes)
                        /\ img'.imageData_ \in
                               BuffersOf("File", {Files(disk)[img.imageFilePath_].bytes})

SectionLines == {SectionPartition, SectionMbr, SectionPartitionStart}

\* the text has a size line in an [mbr] section
HasMbrSizeLine(lines) ==
    \E i \in 1..Len(lines), j \in 1..Len(lines) :
        /\ i < j
        /\ lines[i] = SectionMbr
        /\ \A k \in (i + 1)..(j - 1) : lines[k] \notin SectionLines
        /\ Len(lines[j]) >= Len(KeySize)
        /\ SubSeq(lines[j], 1, Len(KeySize)) = KeySize

\* a parse step: the stream stays the one the caller opened
C30_Step ==
    text' = text =>
        /\ part'.partitions = part.partitions \o PartParsed[text].partitions
        /\ ~HasMbrSizeLine(text) => part'.mbrSize = part.mbrSize

\* C30: a parse only appends: the records of the earlier parses stay, in
\* their order, followed by the records of the text parsed now, and mbrSize
\* keeps its value when the text has no size line in an [mbr] section.
C30_ParseOnlyAppends == [][C30_Step]_vars

\* the record and the mbrSize of a first text, then the record of a second
\* text that has no [mbr] section
C30_Witness ==
    /\ ret.op = "parseFromStream"
    /\ text = <<SectionPartition, PartLineNameB>>
    /\ Len(part.partitions) = 2
    /\ part.partitions[1].name = <<"a">>
    /\ part.partitions[2].name = <<"b">>
    /\ part.mbrSize = 16

====
